---- MODULE Spec2Model ----
(***************************************************************************)
(* A model of the evm-rusty execution layer: the transaction executor      *)
(* (src/evm/executor.rs, src/block/state.rs) over the account map, and the *)
(* stack virtual machine (src/evm/evm.rs) with its operation set           *)
(* (src/evm/operation.rs).                                                 *)
(*                                                                         *)
(* TLC evaluates 32-bit integers.  The u64 fields (balance, nonce, fees,   *)
(* value, gas) are therefore modelled at a width of U64Bits bits: every    *)
(* u64 addition and multiplication is carried out by U64Add / U64Mul,      *)
(* which report the overflow and give the wrapped value, exactly as the    *)
(* 64-bit operations do at 2^64.  A debug build panics on the overflow, a  *)
(* release build continues with the wrapped value (parameter build).       *)
(***************************************************************************)
EXTENDS Integers, Sequences, FiniteSets, TLC

VARIABLES
    accounts,   \* State.accounts: HashMap<Address, Account>
    crashed,    \* a panic has unwound the thread that held the state lock
    last,       \* history: the call in progress, its arguments, the accounts before it, its result
    vm,         \* the VM: stack, memory, contract, gas_available, context, pc, storage_revert
    operations, \* execute_operations: the Vec<Operation> its loop runs over
    exec,       \* execute_operations: the loop's position and result, and history of the run
    contracts,  \* State.contract: the contracts held by the shared state, by address
    lock,       \* the Mutex around State: "free" or the thread holding it
    threads,    \* the threads working on the shared state: position, transaction, locals
    parsers,    \* the BytecodeParser instances: bytecode, pc, what each has yielded
    signing,    \* the Transaction a caller holds, and what signing and verifying it gave
    app         \* App: the channel, blocks, slot, running, and the position of run()

txvars == <<accounts, crashed, last>>

vmvars == <<vm, operations, exec>>

sharedvars == <<contracts, lock, threads>>

nodevars == <<parsers, signing, app>>

vars ==
    <<accounts, crashed, last, vm, operations, exec, contracts, lock, threads,
      parsers, signing, app>>

----------------------------------------------------------------------------
(* Bounds of the transaction model *)

MaxPriorityFee == 1
MaxFeeCap == 2
MaxBaseFee == 1
MaxValue == 1

----------------------------------------------------------------------------
(* Constants of the program *)

TRANSACTION_GAS_COST == 21000

U64Bits == 20

U64Modulus == 2 ^ U64Bits

ZERO == "0x0"

----------------------------------------------------------------------------
(* Keys and addresses *)

Keys == {"k1", "k2"}

\* The key recovered from a signature whose digest is not the transaction's:
\* recovery yields some key, which is nobody's wallet key.
StrayKey == "k?"

\* Wallet: address = last 20 bytes of keccak256(public key); injective here.
to_address(key) ==
    CASE key = "k1" -> "a1"
      [] key = "k2" -> "a2"
      [] OTHER -> "a?"

Recipients == {"a1", "a2", "a3"}

Builds == {"debug", "release"}

----------------------------------------------------------------------------
(* u64 arithmetic *)

U64Add(a, b) == [ov |-> a + b >= U64Modulus, val |-> (a + b) % U64Modulus]

U64Mul(a, b) == [ov |-> a * b >= U64Modulus, val |-> (a * b) % U64Modulus]

Min(a, b) == IF a < b THEN a ELSE b

----------------------------------------------------------------------------
(* Account *)

\* Account { nonce: 0, balance: 0, code_hash: ZERO, storage_root: ZERO }
NewAccount(balance, code_hash, storage_root) ==
    [nonce |-> 0, balance |-> balance, code_hash |-> code_hash,
     storage_root |-> storage_root]

----------------------------------------------------------------------------
(* Transaction *)

\* The digest covers every field but input_data and the signature.
hash_for_signing(tx) ==
    <<2, tx.chain_id, tx.nonce, tx.max_priority_fee_per_gas, tx.max_fee_per_gas,
      tx.gas_limit, tx.to, tx.value>>

NoSignature == [kind |-> "zero", key |-> StrayKey, digest |-> <<>>]

\* the recovery id sign_prehash_recoverable returns with the signature: which
\* of the two candidate keys is the signer's; a fixed function of key and digest
recovery_id(key, digest) ==
    (digest[4] + digest[5] + digest[8] + (IF key = "k1" THEN 0 ELSE 1)) % 2

\* Mutant: the parity bit stored inverted.
ParityOf_Inverted(id) == id = 0

\* self.signature_parity = recovery_id.to_byte() == 1
ParityOf(id) == id = 1

sign(tx, key) ==
    [tx EXCEPT !.signature = [kind |-> "signed", key |-> key,
                              digest |-> hash_for_signing(tx)],
               !.signature_parity = ParityOf(recovery_id(key, hash_for_signing(tx)))]

\* Transaction::new: chain_id 0, nonce 0, the all-zero signature unless a key is given.
NewTransaction(to, value, gas_limit, priority_fee, fee_cap, input_data, private_key) ==
    LET tx == [chain_id |-> 0, nonce |-> 0,
               max_priority_fee_per_gas |-> priority_fee,
               max_fee_per_gas |-> fee_cap,
               gas_limit |-> gas_limit, to |-> to, value |-> value,
               input_data |-> input_data, signature_parity |-> FALSE,
               signature |-> NoSignature]
    IN IF private_key = "none" THEN tx ELSE sign(tx, private_key)

\* Signature::from_slice(..).unwrap(): the all-zero bytes are no signature (r = s = 0).
SignatureParses(tx) == tx.signature.kind # "zero"

\* recover_verifying_key: "panic", "err", or the recovered key.
recover_verifying_key(tx) ==
    IF ~SignatureParses(tx) THEN "panic"
    ELSE IF tx.signature.kind = "unrecoverable" THEN "err"
    ELSE IF tx.signature.digest = hash_for_signing(tx)
            /\ tx.signature_parity
                  = (recovery_id(tx.signature.key, tx.signature.digest) = 1)
         THEN tx.signature.key
    ELSE StrayKey

\* verify_signature: "panic", "true" or "false".  The key recovered from a digest
\* and a signature verifies that signature over that digest, so the inner
\* verify_prehash(..).unwrap() never fails.
verify_signature(tx) ==
    LET k == recover_verifying_key(tx)
    IN IF k = "panic" THEN "panic"
       ELSE IF k = "err" THEN "false"
       ELSE "true"

\* get_sender_address: "panic", "none" or the address of the recovered key.
get_sender_address(tx) ==
    LET k == recover_verifying_key(tx)
    IN IF k = "panic" THEN "panic"
       ELSE IF k = "err" THEN "none"
       ELSE to_address(k)

----------------------------------------------------------------------------
(* Executor::process_transaction and State::process_transaction *)

Outcome(result, accts) == [result |-> result, accounts |-> accts]

\* if base_fee > transaction.max_fee_per_gas
FeeCapBelowBaseFee(tx, base_fee) == base_fee > tx.max_fee_per_gas

\* base_fee + transaction.max_priority_fee_per_gas
FeeOffer(tx, base_fee) == U64Add(base_fee, tx.max_priority_fee_per_gas)

\* TRANSACTION_GAS_COST * max_fee_per_gas.min(base_fee + max_priority_fee_per_gas)
total_fee(tx, base_fee) ==
    LET offer == FeeOffer(tx, base_fee)
        fee == U64Mul(TRANSACTION_GAS_COST, Min(tx.max_fee_per_gas, offer.val))
    IN [ov |-> offer.ov \/ fee.ov, val |-> fee.val]

\* if transaction.gas_limit < TRANSACTION_GAS_COST
GasLimitTooLow(tx) == tx.gas_limit < TRANSACTION_GAS_COST

\* Mutant: the balance threshold made exclusive.
BalanceTooLow_Exclusive(account, cost) == account.balance <= cost

\* if sender.balance < transaction.value + total_fee
BalanceTooLow(account, cost) == account.balance < cost

\* Mutant: the gas limit checked before the fee cap.
Validate_GasLimitFirst(accts, sender_address, tx, base_fee, build) ==
    IF sender_address \notin DOMAIN accts THEN "SenderAccountDoesNotExist"
    ELSE IF tx.gas_limit < TRANSACTION_GAS_COST THEN "InsufficientGas"
    ELSE IF base_fee > tx.max_fee_per_gas THEN "MaximumGasFeeBelowBaseFee"
    ELSE IF total_fee(tx, base_fee).ov /\ build = "debug" THEN "panic"
    ELSE IF verify_signature(tx) = "panic" THEN "panic"
    ELSE IF verify_signature(tx) = "false" THEN "InvalidSignature"
    ELSE IF U64Add(tx.value, total_fee(tx, base_fee).val).ov /\ build = "debug"
         THEN "panic"
    ELSE IF accts[sender_address].balance
              < U64Add(tx.value, total_fee(tx, base_fee).val).val
         THEN "InsufficientBalance"
    ELSE "Ok"

\* The checks made once the sender address is known, in the order of the code:
\* the first error, "panic" (an overflow in a debug build) or "Ok".
Validate(accts, sender_address, tx, base_fee, build) ==
    IF sender_address \notin DOMAIN accts THEN "SenderAccountDoesNotExist"
    ELSE IF FeeCapBelowBaseFee(tx, base_fee) THEN "MaximumGasFeeBelowBaseFee"
    ELSE IF total_fee(tx, base_fee).ov /\ build = "debug" THEN "panic"
    ELSE IF GasLimitTooLow(tx) THEN "InsufficientGas"
    ELSE IF verify_signature(tx) = "panic" THEN "panic"
    ELSE IF verify_signature(tx) = "false" THEN "InvalidSignature"
    ELSE IF U64Add(tx.value, total_fee(tx, base_fee).val).ov /\ build = "debug"
         THEN "panic"
    ELSE IF BalanceTooLow(accts[sender_address],
                          U64Add(tx.value, total_fee(tx, base_fee).val).val)
         THEN "InsufficientBalance"
    ELSE "Ok"

\* sender.balance -= transaction.value + total_fee
DebitBalance(account, cost) == [account EXCEPT !.balance = @ - cost]

\* sender.nonce += 1
BumpNonce(account) == [account EXCEPT !.nonce = U64Add(@, 1).val]

\* Mutant: insert() in place of entry().or_insert(): an existing recipient is replaced.
EntryOrInsert_Replace(accts, to) ==
    [a \in DOMAIN accts \cup {to} |->
        IF a = to THEN [nonce |-> 0, balance |-> 0, code_hash |-> ZERO,
                        storage_root |-> ZERO]
        ELSE accts[a]]

\* state.accounts.entry(to).or_insert(Account { nonce: 0, balance: 0, .. })
EntryOrInsert(accts, to) ==
    [a \in DOMAIN accts \cup {to} |->
        IF a \in DOMAIN accts THEN accts[a] ELSE NewAccount(0, ZERO, ZERO)]

\* Mutant: the recipient's balance assigned, not increased.
CreditBalance_Assign(account, value) == [account EXCEPT !.balance = value]

\* recipient.balance += transaction.value
CreditBalance(account, value) ==
    [account EXCEPT !.balance = U64Add(@, value).val]

\* The mutations of a validated transaction, in the order of the code; a panic
\* leaves the mutations made before it.
Transfer(accts, sender_address, tx, base_fee, build) ==
    LET cost == U64Add(tx.value, total_fee(tx, base_fee).val).val
        debited == [accts EXCEPT ![sender_address] = DebitBalance(@, cost)]
        bumped == [debited EXCEPT ![sender_address] = BumpNonce(@)]
        entered == EntryOrInsert(bumped, tx.to)
        credited == [entered EXCEPT ![tx.to] = CreditBalance(@, tx.value)]
    IN IF U64Add(accts[sender_address].nonce, 1).ov /\ build = "debug"
       THEN Outcome("panic", debited)
       ELSE IF U64Add(entered[tx.to].balance, tx.value).ov /\ build = "debug"
       THEN Outcome("panic", entered)
       ELSE Outcome("Ok", credited)

\* Mutant: the recipient account is entered before the transaction is validated.
ProcessFrom_EntryFirst(accts, sender_address, tx, base_fee, build) ==
    LET v == Validate(accts, sender_address, tx, base_fee, build)
    IN IF v = "Ok" THEN Transfer(accts, sender_address, tx, base_fee, build)
       ELSE IF v = "panic" THEN [result |-> v, accounts |-> accts]
       ELSE [result |-> v, accounts |-> EntryOrInsert(accts, tx.to)]

\* Everything after the sender address is known (the same text in both versions).
ProcessFrom(accts, sender_address, tx, base_fee, build) ==
    LET v == Validate(accts, sender_address, tx, base_fee, build)
    IN IF v = "Ok" THEN Transfer(accts, sender_address, tx, base_fee, build)
       ELSE Outcome(v, accts)

\* Executor::process_transaction: the sender is recovered from the signature.
process_transaction(accts, tx, base_fee, build) ==
    LET sender_address == get_sender_address(tx)
    IN IF sender_address = "panic" THEN Outcome("panic", accts)
       ELSE IF sender_address = "none" THEN Outcome("InvalidTransaction", accts)
       ELSE ProcessFrom(accts, sender_address, tx, base_fee, build)

\* State::process_transaction: the sender is the transaction's from field.
state_process_transaction(accts, from, tx, base_fee, build) ==
    ProcessFrom(accts, from, tx, base_fee, build)

----------------------------------------------------------------------------
(* The inputs *)

GasLimits == {TRANSACTION_GAS_COST - 1, TRANSACTION_GAS_COST}

BaseFees == 1..MaxBaseFee

\* Transactions as Transaction::new builds them, signed or not.
BuiltTransactions ==
    { NewTransaction(to, value, gas_limit, prio, cap, <<>>, key) :
        to \in Recipients, value \in 0..MaxValue, gas_limit \in GasLimits,
        prio \in 0..MaxPriorityFee, cap \in 0..MaxFeeCap,
        key \in Keys \cup {"none"} }

\* The fields are public: a value changed after signing, and signature bytes
\* that parse but recover no key.
TamperedTransactions ==
    { [tx EXCEPT !.value = (@ + 1) % (MaxValue + 1)] :
        tx \in {t \in BuiltTransactions : t.signature.kind = "signed"
                                          /\ t.signature.key = "k1"} }
    \cup
    { [tx EXCEPT !.signature = [kind |-> "unrecoverable", key |-> StrayKey,
                                digest |-> <<>>]] :
        tx \in {t \in BuiltTransactions : t.signature.kind = "zero"} }

Transactions == BuiltTransactions \cup TamperedTransactions

\* Balances put in place by State::set_account before any transaction.
GenesisBalances ==
    {0, TRANSACTION_GAS_COST, TRANSACTION_GAS_COST + 1,
     2 * TRANSACTION_GAS_COST + 1}

Genesis ==
    UNION { [S -> {NewAccount(b, ZERO, ZERO) : b \in GenesisBalances}] :
            S \in SUBSET {"a1", "a2"} }

NoCall == [op |-> "none"]

Call(op, tx, base_fee, sender, pre, result) ==
    [op |-> op, tx |-> tx, base_fee |-> base_fee, sender |-> sender,
     pre |-> pre, result |-> result]

\* No VM has been constructed.
NoVM == [stack |-> <<>>]

NoExec == [state |-> "none"]

VMAbsent ==
    /\ vm = NoVM
    /\ operations = <<>>
    /\ exec = NoExec

\* No contract is held by the state and no thread but the caller's exists.
SharedAbsent ==
    /\ contracts = <<>>
    /\ lock = "free"
    /\ threads = <<>>

\* No parser has been constructed, no transaction is held, no App exists.
NodeAbsent ==
    /\ parsers = <<>>
    /\ signing = [state |-> "none"]
    /\ app = [state |-> "none"]

TxInit ==
    /\ accounts \in Genesis
    /\ crashed = FALSE
    /\ last = NoCall
    /\ VMAbsent
    /\ SharedAbsent
    /\ NodeAbsent

\* A caller hands a transaction to Executor::process_transaction.
ExecutorProcessTransaction ==
    /\ ~crashed
    /\ last = NoCall
    /\ \E tx \in Transactions, base_fee \in BaseFees, build \in Builds :
         LET out == process_transaction(accounts, tx, base_fee, build)
         IN /\ accounts' = out.accounts
            /\ crashed' = (out.result = "panic")
            /\ last' = Call("Executor::process_transaction", tx, base_fee,
                            get_sender_address(tx), accounts, out.result)
    /\ UNCHANGED vmvars
    /\ UNCHANGED sharedvars
    /\ UNCHANGED nodevars

\* A caller hands a transaction to State::process_transaction.
StateProcessTransaction ==
    /\ ~crashed
    /\ last = NoCall
    /\ \E tx \in Transactions, from \in Recipients, base_fee \in BaseFees,
          build \in Builds :
         LET out == state_process_transaction(accounts, from, tx, base_fee, build)
         IN /\ accounts' = out.accounts
            /\ crashed' = (out.result = "panic")
            /\ last' = Call("State::process_transaction", tx, base_fee,
                            from, accounts, out.result)
    /\ UNCHANGED vmvars
    /\ UNCHANGED sharedvars
    /\ UNCHANGED nodevars

\* The caller resubmits the transaction it has just had processed.
ResubmitTransaction ==
    /\ ~crashed
    /\ last # NoCall
    /\ last.op = "Executor::process_transaction"
    /\ \E build \in Builds :
         LET out == process_transaction(accounts, last.tx, last.base_fee, build)
         IN /\ accounts' = out.accounts
            /\ crashed' = (out.result = "panic")
            /\ last' = [Call("replay", last.tx, last.base_fee, last.sender,
                             accounts, out.result)
                        EXCEPT !.op = IF last.result = "Ok" THEN "replay" ELSE "retry"]
    /\ UNCHANGED vmvars
    /\ UNCHANGED sharedvars
    /\ UNCHANGED nodevars

\* The call has returned to its caller, which drops the result.
CallReturns ==
    /\ ~crashed
    /\ last # NoCall
    /\ last' = NoCall
    /\ UNCHANGED <<accounts, crashed>>
    /\ UNCHANGED vmvars
    /\ UNCHANGED sharedvars
    /\ UNCHANGED nodevars

TxNext ==
    \/ ExecutorProcessTransaction
    \/ StateProcessTransaction
    \/ ResubmitTransaction
    \/ CallReturns

Spec == TxInit /\ [][TxNext]_vars

----------------------------------------------------------------------------
(* Vocabulary of the properties of the transaction executor *)

TransactionErrors ==
    {"InvalidTransaction", "SenderAccountDoesNotExist", "MaximumGasFeeBelowBaseFee",
     "InsufficientGas", "InvalidSignature", "InsufficientBalance"}

Called == last # NoCall

\* total_fee as the exact mathematical value
ExactFee(tx, base_fee) ==
    21000 * Min(tx.max_fee_per_gas, base_fee + tx.max_priority_fee_per_gas)

BalanceOf(accts, a) == IF a \in DOMAIN accts THEN accts[a].balance ELSE 0

RECURSIVE SumOver(_, _)
SumOver(accts, S) ==
    IF S = {} THEN 0
    ELSE LET a == CHOOSE x \in S : TRUE
         IN accts[a].balance + SumOver(accts, S \ {a})

TotalBalance(accts) == SumOver(accts, DOMAIN accts)

\* The signature bytes recover a key (and so verify).
Recoverable(tx) == tx.signature.kind = "signed"

\* The error the stated order of checks gives for the call in `last`, or "Ok".
ExpectedResult ==
    IF last.op # "State::process_transaction" /\ ~Recoverable(last.tx)
        THEN "InvalidTransaction"
    ELSE IF last.sender \notin DOMAIN last.pre THEN "SenderAccountDoesNotExist"
    ELSE IF last.base_fee > last.tx.max_fee_per_gas THEN "MaximumGasFeeBelowBaseFee"
    ELSE IF last.tx.gas_limit < 21000 THEN "InsufficientGas"
    ELSE IF ~Recoverable(last.tx) THEN "InvalidSignature"
    ELSE IF last.pre[last.sender].balance
              < last.tx.value + ExactFee(last.tx, last.base_fee)
        THEN "InsufficientBalance"
    ELSE "Ok"

----------------------------------------------------------------------------
(* C1 *)

\* C1 as stated: after every successful process_transaction, for every recipient,
\* the sender's own address included, the sender's nonce is 1 higher, the sender's
\* balance is lower by exactly value + 21000 * min(max_fee, base_fee + priority
\* fee), and the recipient exists with a balance higher by exactly value.
C1_TransferEffect_AnyRecipient ==
    (Called /\ last.result = "Ok") =>
        /\ accounts[last.sender].nonce = last.pre[last.sender].nonce + 1
        /\ accounts[last.sender].balance =
              last.pre[last.sender].balance
                - (last.tx.value + ExactFee(last.tx, last.base_fee))
        /\ last.tx.to \in DOMAIN accounts
        /\ accounts[last.tx.to].balance = BalanceOf(last.pre, last.tx.to) + last.tx.value

\* C1 amended: the stated effect holds when the recipient is another address than
\* the sender; when the recipient is the sender, the nonce is 1 higher and the
\* balance is lower by exactly the fee (the value is debited and credited back).
C1_TransferEffect ==
    (Called /\ last.result = "Ok") =>
        /\ accounts[last.sender].nonce = last.pre[last.sender].nonce + 1
        /\ last.tx.to \in DOMAIN accounts
        /\ last.tx.to # last.sender =>
              /\ accounts[last.sender].balance =
                    last.pre[last.sender].balance
                      - (last.tx.value + ExactFee(last.tx, last.base_fee))
              /\ accounts[last.tx.to].balance =
                    BalanceOf(last.pre, last.tx.to) + last.tx.value
        /\ last.tx.to = last.sender =>
              accounts[last.sender].balance =
                  last.pre[last.sender].balance - ExactFee(last.tx, last.base_fee)

\* A successful transfer of a non-zero value from an account to itself.
C1_Witness_SelfTransfer ==
    /\ Called
    /\ last.result = "Ok"
    /\ last.tx.to = last.sender
    /\ last.tx.value > 0

----------------------------------------------------------------------------
(* C2 *)

\* C2: when process_transaction returns an error the accounts map is what it was
\* before the call; and a sender that passes the earlier checks with a balance
\* equal to tx.value, below value + total_fee, gets InsufficientBalance with the
\* accounts unchanged.
C2_ErrorLeavesAccounts ==
    /\ (Called /\ last.result \in TransactionErrors) => accounts = last.pre
    /\ ( /\ Called
         /\ Recoverable(last.tx)
         /\ last.sender \in DOMAIN last.pre
         /\ last.base_fee <= last.tx.max_fee_per_gas
         /\ last.tx.gas_limit >= 21000
         /\ last.pre[last.sender].balance = last.tx.value
         /\ last.tx.value < last.tx.value + ExactFee(last.tx, last.base_fee) )
       => (last.result = "InsufficientBalance" /\ accounts = last.pre)

\* A sender holding exactly the value sent is refused, its recipient being an
\* address that has no account.
C2_Witness_BalanceEqualsValue ==
    /\ Called
    /\ last.result = "InsufficientBalance"
    /\ last.tx.value > 0
    /\ last.pre[last.sender].balance = last.tx.value
    /\ last.tx.to \notin DOMAIN last.pre

----------------------------------------------------------------------------
(* C3 *)

\* C3: the preconditions are evaluated in the order recovery, account lookup, fee
\* cap, gas limit, signature, balance: the error returned is the one of the
\* earliest violated step, and no error is returned when no step is violated.
C3_ErrorOrder ==
    (Called /\ last.result # "panic") => last.result = ExpectedResult

\* A call that violates the fee cap, the gas limit and the balance at once.
C3_Witness_SeveralViolations ==
    /\ Called
    /\ last.op = "Executor::process_transaction"
    /\ last.result = "MaximumGasFeeBelowBaseFee"
    /\ last.tx.gas_limit < 21000
    /\ last.pre[last.sender].balance < last.tx.value

----------------------------------------------------------------------------
(* C4 *)

\* C4: with a recoverable signature and an existing sender account,
\* process_transaction succeeds exactly when base_fee <= max_fee_per_gas,
\* gas_limit >= 21000 and balance >= value + total_fee, the thresholds included.
C4_SuccessCondition ==
    (Called /\ Recoverable(last.tx) /\ last.sender \in DOMAIN last.pre) =>
        ( last.result = "Ok"
          <=> /\ last.base_fee <= last.tx.max_fee_per_gas
              /\ last.tx.gas_limit >= 21000
              /\ last.pre[last.sender].balance
                    >= last.tx.value + ExactFee(last.tx, last.base_fee) )

\* A success with all three thresholds met with equality.
C4_Witness_AllThresholds ==
    /\ Called
    /\ last.result = "Ok"
    /\ last.base_fee = last.tx.max_fee_per_gas
    /\ last.tx.gas_limit = 21000
    /\ last.tx.value > 0
    /\ last.pre[last.sender].balance
          = last.tx.value + ExactFee(last.tx, last.base_fee)

----------------------------------------------------------------------------
(* C5 *)

\* C5 as stated: a signed transaction that has been processed successfully is
\* rejected when it is processed again, and changes no account.
C5_ReplayRejected ==
    (Called /\ last.op = "replay") =>
        (last.result \in TransactionErrors /\ accounts = last.pre)

----------------------------------------------------------------------------
(* C6 *)

\* C6: over any sequence of process_transaction calls the sum of all balances is
\* lowered by exactly total_fee by each successful call and is left unchanged by
\* each failed call.
C6_TotalBalance ==
    Called =>
        IF last.result = "Ok"
        THEN TotalBalance(accounts)
                = TotalBalance(last.pre) - ExactFee(last.tx, last.base_fee)
        ELSE TotalBalance(accounts) = TotalBalance(last.pre)

\* A success that moves a non-zero value to another, existing account, after an
\* earlier successful call.
C6_Witness_ValueMoved ==
    /\ Called
    /\ last.result = "Ok"
    /\ last.tx.value > 0
    /\ last.tx.to # last.sender
    /\ last.tx.to \in DOMAIN last.pre
    /\ \E a \in DOMAIN last.pre : last.pre[a].nonce > 0

----------------------------------------------------------------------------
(* The virtual machine: bounds *)

MaxWord == 2
MaxStatements == 3
MaxSteps == 12
MaxOverfill == 2
U256Bits == 8

----------------------------------------------------------------------------
(* The virtual machine: constants of the program *)

MAX_STACK_SIZE == 1024

\* U256 at the modelled width (see the note on U64Bits)
U256Modulus == 2 ^ U256Bits

\* usize::MAX, the value of 0usize - 1 in a release build
UsizeMax == -1

----------------------------------------------------------------------------
(* Operation *)

Op(name) == [name |-> name, arg |-> 0]

Push1(value) == [name |-> "Push1", arg |-> value]

Dup(n) == [name |-> "Dup", arg |-> n]

PushNames ==
    {"Push1", "Push2", "Push3", "Push4", "Push5", "Push6", "Push7",
     "Push8", "Push9", "Push10", "Push11", "Push12", "Push13", "Push14",
     "Push15", "Push16", "Push17", "Push18", "Push19", "Push20", "Push21",
     "Push22", "Push23", "Push24", "Push25", "Push26", "Push27", "Push28",
     "Push29", "Push30", "Push31", "Push32"}

Implemented ==
    PushNames \cup
    {"Add", "IsZero", "Address", "Origin", "CallValue", "CallDataSize", "CodeSize",
     "Pop", "MStore", "SLoad", "SStore", "JumpI", "JumpDest", "Push0", "Dup",
     "Return", "Revert", "CallDataLoad", "CodeCopy"}

\* Operation::stack_req().min_stack_height
min_stack_height(op) ==
    IF op.name \in PushNames THEN 0
    ELSE IF op.name \in {"Add", "Sub", "Mul", "Div"} THEN 2
    ELSE IF op.name = "Pop" THEN 1
    ELSE IF op.name = "Dup" /\ op.arg >= 1 /\ op.arg <= 16 THEN op.arg
    ELSE 1

\* Operation::gas_cost().base
gas_cost_base(op) ==
    IF op.name \in {"Stop", "Return"} THEN 0
    ELSE IF op.name \in {"Add", "Sub", "Not", "Lt", "Gt", "Slt", "Sgt", "Eq",
                         "IsZero", "And", "Or", "Xor", "Pop"} THEN 3
    ELSE IF op.name \in {"Mul", "Div", "SDiv", "Mod", "SMod", "SignExtend"} THEN 5
    ELSE IF op.name \in {"AddMod", "MulMod"} THEN 8
    ELSE IF op.name = "SLoad" THEN 800
    ELSE IF op.name = "SStore" THEN 5000
    ELSE IF op.name \in {"MLoad", "MStore"} THEN 3
    ELSE IF op.name \in PushNames THEN 3
    ELSE IF op.name = "Create" THEN 32000
    ELSE IF op.name = "Call" THEN 700
    ELSE IF op.name = "SelfDestruct" THEN 5000
    ELSE 3

----------------------------------------------------------------------------
(* ExecutionResult and the outcome of process_operation *)

Success(gas_used) ==
    [kind |-> "Success", some |-> FALSE, data |-> <<>>, gas_used |-> gas_used]

SuccessData(return_data, gas_used) ==
    [kind |-> "Success", some |-> TRUE, data |-> return_data, gas_used |-> gas_used]

Reverted(reason, gas_used) ==
    [kind |-> "Revert", some |-> TRUE, data |-> reason, gas_used |-> gas_used]

NoResult == [kind |-> "None", some |-> FALSE, data |-> <<>>, gas_used |-> 0]

OkStep(m, result) == [kind |-> "Ok", vm |-> m, result |-> result, error |-> ""]

ErrStep(m, error) == [kind |-> "Err", vm |-> m, result |-> NoResult, error |-> error]

PanicStep(m) == [kind |-> "Panic", vm |-> m, result |-> NoResult, error |-> "panic"]

----------------------------------------------------------------------------
(* VM *)

Contract(code, storage) == [code |-> code, storage |-> storage]

ExecutionContext(caller, address, value, data, gas) ==
    [caller |-> caller, address |-> address, value |-> value, data |-> data,
     gas |-> gas]

EmptyMap == [k \in {} |-> 0]

\* the position just past the first 0xf3 0xfe of the code, or 0
creation_offset(code) ==
    LET hits == {i \in 1..(Len(code) - 1) : code[i] = 243 /\ code[i + 1] = 254}
    IN IF hits = {} THEN 0
       ELSE (CHOOSE i \in hits : \A j \in hits : i <= j) + 1

\* VM::new
VMNew(contract, context) ==
    [stack |-> <<>>, memory |-> <<>>, contract |-> contract,
     gas_available |-> context.gas, context |-> context,
     creation_offset |-> creation_offset(contract.code), pc |-> 0,
     storage_revert |-> EmptyMap]

\* U256::from_be_slice(address.as_slice()) at the modelled width
AddressWord(address) ==
    CASE address = "a1" -> 161
      [] address = "a2" -> 162
      [] address = "a3" -> 163
      [] OTHER -> 0

stack_size(m) == Len(m.stack)

\* VM::push
push(m, value) ==
    IF stack_size(m) >= MAX_STACK_SIZE
    THEN [ok |-> FALSE, vm |-> m]
    ELSE [ok |-> TRUE, vm |-> [m EXCEPT !.stack = Append(@, value)]]

\* n calls of VM::pop in a row, each followed by `?`: when fewer than n items
\* are there, every item has been popped by the time NoItemsOnStack is returned.
pop(m, n) ==
    IF stack_size(m) >= n
    THEN [ok |-> TRUE,
          vm |-> [m EXCEPT !.stack = SubSeq(@, 1, Len(@) - n)]]
    ELSE [ok |-> FALSE, vm |-> [m EXCEPT !.stack = <<>>]]

\* the i-th item popped (1 is the top of the stack)
item(m, i) == m.stack[Len(m.stack) - i + 1]

\* self.push(value)? followed by the common Ok(Success { None, base })
PushStep(m, value, base) ==
    LET r == push(m, value)
    IN IF r.ok THEN OkStep(r.vm, Success(base)) ELSE ErrStep(r.vm, "StackFull")

\* Mutant: the sum stops at the largest word.
WrappingAdd_Saturating(a, b) == Min(a + b, U256Modulus - 1)

\* U256 + U256 (wrapping)
WrappingAdd(a, b) == (a + b) % U256Modulus

\* VM::add
add(m, base) ==
    LET p == pop(m, 2)
    IN IF ~p.ok THEN ErrStep(p.vm, "NoItemsOnStack")
       ELSE PushStep(p.vm, WrappingAdd(item(m, 1), item(m, 2)), base)

\* VM::calc_memory_expansion_gas
calc_memory_expansion_gas(memory_byte_size) ==
    LET memory_size_word == (memory_byte_size + 31) \div 32
    IN (memory_size_word * memory_size_word) \div 512 + 3 * memory_size_word

\* Vec::resize(new_size, 0), called only to grow
Resize(memory, new_size) ==
    [i \in 1..new_size |-> IF i <= Len(memory) THEN memory[i] ELSE 0]

\* VM::expand_memory
expand_memory(m, offset, required_size) ==
    LET new_size == offset + required_size
    IN IF Len(m.memory) < new_size
       THEN IF calc_memory_expansion_gas(offset + 32) < m.gas_available
            THEN [ok |-> TRUE, vm |-> [m EXCEPT !.memory = Resize(@, new_size)]]
            ELSE [ok |-> FALSE, vm |-> m]
       ELSE [ok |-> TRUE, vm |-> m]

\* U256::to_be_bytes::<32>, for the values below 2^16 the model holds
to_be_bytes(value) ==
    [i \in 1..32 |-> IF i = 32 THEN value % 256
                     ELSE IF i = 31 THEN (value \div 256) % 256
                     ELSE 0]

\* VM::load_into_memory
load_into_memory(m, offset, value) ==
    LET e == expand_memory(m, offset, 32)
    IN IF ~e.ok THEN e
       ELSE [ok |-> TRUE,
             vm |-> [e.vm EXCEPT !.memory =
                        [i \in 1..Len(@) |->
                            IF i > offset /\ i <= offset + 32
                            THEN to_be_bytes(value)[i - offset]
                            ELSE @[i]]]]

\* VM::read_from_memory: [vm, data]
read_from_memory(m, offset, length) ==
    LET grown == IF Len(m.memory) < offset + length
                 THEN [m EXCEPT !.memory = Resize(@, offset + length)]
                 ELSE m
    IN [vm |-> grown, data |-> SubSeq(grown.memory, offset + 1, offset + length)]

\* VM::revert_storage
revert_storage(m) ==
    LET journal == m.storage_revert
        storage == m.contract.storage
        deleted == {k \in DOMAIN journal : journal[k].change = "Delete"}
        restored == [k \in DOMAIN storage \ deleted |->
                        IF k \in DOMAIN journal /\ journal[k].change = "Set"
                        THEN journal[k].value
                        ELSE storage[k]]
    IN [m EXCEPT !.contract.storage = restored, !.storage_revert = EmptyMap]

\* HashMap::insert
MapInsert(map, key, value) ==
    [k \in DOMAIN map \cup {key} |-> IF k = key THEN value ELSE map[k]]

\* Operation::SStore
sstore(m, base) ==
    LET p == pop(m, 2)
        storage_key == item(m, 1)
        storage_value == item(m, 2)
        storage == m.contract.storage
        entry == IF storage_key \notin DOMAIN storage
                 THEN [change |-> "Delete", value |-> storage_value]
                 ELSE [change |-> "Set", value |-> storage[storage_key]]
    IN IF ~p.ok THEN ErrStep(p.vm, "NoItemsOnStack")
       ELSE OkStep([p.vm EXCEPT
                       !.contract.storage = MapInsert(@, storage_key, storage_value),
                       !.storage_revert = MapInsert(@, storage_key, entry)],
                   Success(base))

\* Operation::SLoad
sload(m, base) ==
    LET p == pop(m, 1)
        key == item(m, 1)
        storage == m.contract.storage
    IN IF ~p.ok THEN ErrStep(p.vm, "NoItemsOnStack")
       ELSE PushStep(p.vm, IF key \in DOMAIN storage THEN storage[key] ELSE 0, base)

\* Operation::IsZero
iszero(m, base) ==
    LET p == pop(m, 1)
    IN IF ~p.ok THEN ErrStep(p.vm, "NoItemsOnStack")
       ELSE PushStep(p.vm, IF item(m, 1) = 0 THEN 1 ELSE 0, base)

\* Operation::Pop
pop_op(m, base) ==
    LET p == pop(m, 1)
    IN IF ~p.ok THEN ErrStep(p.vm, "NoItemsOnStack")
       ELSE OkStep(p.vm, Success(base))

\* Operation::MStore
mstore(m, base) ==
    LET p == pop(m, 2)
        l == load_into_memory(p.vm, item(m, 1), item(m, 2))
    IN IF ~p.ok THEN ErrStep(p.vm, "NoItemsOnStack")
       ELSE IF ~l.ok THEN ErrStep(l.vm, "OutOfGas")
       ELSE OkStep(l.vm, Success(base))

\* Operation::JumpI
jumpi(m, base, build) ==
    LET p == pop(m, 2)
        offset == item(m, 1)
        jump == item(m, 2)
    IN IF ~p.ok THEN ErrStep(p.vm, "NoItemsOnStack")
       ELSE IF jump = 0 THEN OkStep(p.vm, Success(base))
       ELSE IF offset > 0 THEN OkStep([p.vm EXCEPT !.pc = offset - 1], Success(base))
       ELSE IF build = "debug" THEN PanicStep(p.vm)
       ELSE OkStep([p.vm EXCEPT !.pc = UsizeMax], Success(base))

\* Operation::Dup
dup(m, item_num, base) ==
    IF item_num = 0 \/ item_num > Len(m.stack) THEN ErrStep(m, "StackUnderflow")
    ELSE OkStep([m EXCEPT !.stack = Append(@, @[Len(@) - item_num + 1])],
                Success(base))

\* Operation::Return
return_op(m, base) ==
    LET p == pop(m, 2)
        r == read_from_memory(p.vm, item(m, 2), item(m, 1))
    IN IF ~p.ok THEN ErrStep(p.vm, "NoItemsOnStack")
       ELSE OkStep(r.vm, SuccessData(r.data, base))

\* Operation::Revert
revert_op(m, base) ==
    LET p == pop(m, 2)
        r == read_from_memory(revert_storage(p.vm), item(m, 2), item(m, 1))
    IN IF ~p.ok THEN ErrStep(p.vm, "NoItemsOnStack")
       ELSE OkStep(r.vm, Reverted(r.data, base))

\* U256::from_be_slice at the modelled width
RECURSIVE from_be_slice(_)
from_be_slice(bytes) ==
    IF bytes = <<>> THEN 0
    ELSE (from_be_slice(SubSeq(bytes, 1, Len(bytes) - 1)) * 256
          + bytes[Len(bytes)]) % U256Modulus

\* Operation::CallDataLoad: copy_from_slice panics unless the slice has the 32
\* bytes of result
calldataload(m, base) ==
    LET p == pop(m, 1)
        i == item(m, 1)
        data == m.context.data
        slice_end == Min(i + 32, Len(data))
    IN IF ~p.ok THEN ErrStep(p.vm, "NoItemsOnStack")
       ELSE IF i < Len(data)
            THEN IF slice_end - i # 32 THEN PanicStep(p.vm)
                 ELSE PushStep(p.vm, from_be_slice(SubSeq(data, i + 1, slice_end)), base)
       ELSE PushStep(p.vm, 0, base)

\* static_gas + dynamic_gas of the CodeCopy arm
codecopy_gas(size) ==
    3 + 3 * ((size + 31) \div 32) + calc_memory_expansion_gas(size)

\* Operation::CodeCopy
codecopy(m, base) ==
    LET p == pop(m, 3)
        dest_offset == item(m, 1)
        offset == item(m, 2)
        size == item(m, 3)
        code == m.contract.code
        charged == [p.vm EXCEPT !.gas_available = @ - codecopy_gas(size)]
        e == expand_memory(charged, dest_offset, size)
    IN IF ~p.ok THEN ErrStep(p.vm, "NoItemsOnStack")
       ELSE IF p.vm.gas_available < codecopy_gas(size) THEN ErrStep(p.vm, "OutOfGas")
       ELSE IF ~e.ok THEN ErrStep(e.vm, "OutOfGas")
       ELSE OkStep([e.vm EXCEPT !.memory =
                       [j \in 1..Len(@) |->
                           IF j > dest_offset /\ j <= dest_offset + size
                           THEN IF offset + j - dest_offset <= Len(code)
                                THEN code[offset + j - dest_offset]
                                ELSE 0
                           ELSE @[j]]],
                   Success(base))

\* The match of VM::process_operation
Dispatch(m, op, base, build) ==
    CASE op.name = "Add" -> add(m, base)
      [] op.name = "IsZero" -> iszero(m, base)
      [] op.name = "Address" -> PushStep(m, AddressWord(m.context.address), base)
      [] op.name = "Origin" -> PushStep(m, AddressWord(m.context.caller), base)
      [] op.name = "CallValue" -> PushStep(m, m.context.value, base)
      [] op.name = "CallDataSize" -> PushStep(m, Len(m.context.data), base)
      [] op.name = "CallDataLoad" -> calldataload(m, base)
      [] op.name = "CodeSize" -> PushStep(m, Len(m.contract.code), base)
      [] op.name = "CodeCopy" -> codecopy(m, base)
      [] op.name = "Pop" -> pop_op(m, base)
      [] op.name = "MStore" -> mstore(m, base)
      [] op.name = "SLoad" -> sload(m, base)
      [] op.name = "SStore" -> sstore(m, base)
      [] op.name = "JumpI" -> jumpi(m, base, build)
      [] op.name = "JumpDest" -> OkStep(m, Success(base))
      [] op.name = "Push0" -> PushStep(m, 0, base)
      [] op.name \in PushNames -> PushStep(m, op.arg, base)
      [] op.name = "Dup" -> dup(m, op.arg, base)
      [] op.name = "Return" -> return_op(m, base)
      [] op.name = "Revert" -> revert_op(m, base)
      [] OTHER -> PanicStep(m)

\* VM::process_operation
process_operation(m, op, build) ==
    IF stack_size(m) < min_stack_height(op) THEN ErrStep(m, "NotEnoughItemsOnStack")
    ELSE IF m.gas_available < gas_cost_base(op) THEN ErrStep(m, "OutOfGas")
    ELSE Dispatch(m, op, gas_cost_base(op), build)

\* the number of VM::pop calls an operation makes (Dup reads that deep)
pops(op) ==
    IF op.name \in {"Add", "MStore", "SStore", "JumpI", "Return", "Revert"} THEN 2
    ELSE IF op.name \in {"IsZero", "Pop", "SLoad", "CallDataLoad"} THEN 1
    ELSE IF op.name = "CodeCopy" THEN 3
    ELSE IF op.name = "Dup" THEN op.arg
    ELSE 0

----------------------------------------------------------------------------
(* Programs handed to execute_operations, as the compiled Vec<Operation> *)

Store(key, value) == <<Push1(value), Push1(key), Op("SStore")>>

RevertStmt == <<Push1(0), Push1(0), Op("Revert")>>

ReturnStmt == <<Push1(0), Push1(1), Op("Return")>>

MStoreStmt(value) == <<Push1(value), Push1(0), Op("MStore")>>

JumpStmt(dest) == <<Push1(1), Push1(dest), Op("JumpI")>>

RawNames == {"Push0", "Pop", "Add", "MStore", "Revert", "Stop"}

Statements ==
    {<<Op(name)>> : name \in RawNames}
    \cup {<<Push1(1)>>}
    \cup {Store(0, value) : value \in 1..MaxWord}
    \cup {RevertStmt, ReturnStmt, MStoreStmt(MaxWord), JumpStmt(0), JumpStmt(1)}

RECURSIVE Flatten(_)
Flatten(statements) ==
    IF statements = <<>> THEN <<>>
    ELSE Head(statements) \o Flatten(Tail(statements))

Programs ==
    {Flatten(statements) :
        statements \in UNION {[1..n -> Statements] : n \in 0..MaxStatements}}

PusherOps ==
    {Op("Push0"), Push1(1), Dup(1), Op("Address"), Op("Origin"),
     Op("CallValue"), Op("CallDataSize"), Op("CodeSize")}

\* MAX_STACK_SIZE pushes, then the same pushing operation MaxOverfill times
StackPrograms ==
    {[i \in 1..(MAX_STACK_SIZE + MaxOverfill) |->
        IF i <= MAX_STACK_SIZE THEN Push1(1) ELSE op] : op \in PusherOps}

SampleCode == <<96, 1, 243, 254, 91>>

SampleData == <<1, 2>>

InitialStorages == {EmptyMap, [k \in {0} |-> MaxWord + 1]}

GasBudgets == {3, 100000}

----------------------------------------------------------------------------
(* VM::execute_operations *)

Idle == [state |-> "idle"]

\* steps counts the operations dispatched (the model follows a run for budget
\* operations), charged is the sum of the base costs of the operations executed,
\* jumped_to is the VM as the first backward jump left it and revisited tells
\* that a later step has left the VM in exactly that state again; build is the
\* build of the running program, settled at the first operation whose outcome
\* depends on it; run numbers the calls of execute_operations on this VM
Running(m, budget) ==
    [state |-> "running", execution_result |-> NoResult, error |-> "",
     steps |-> 0, budget |-> budget, build |-> "any", charged |-> 0,
     jumped |-> FALSE, jumped_to |-> m, revisited |-> FALSE,
     storage0 |-> m.contract.storage, run |-> 1,
     op |-> Op("None"), before |-> m,
     halted |-> "none", halt_vm |-> m, halt_result |-> NoResult]

VMInit ==
    /\ accounts = EmptyMap
    /\ crashed = FALSE
    /\ last = NoCall
    /\ \E storage \in InitialStorages, gas \in GasBudgets :
          vm = VMNew(Contract(SampleCode, storage),
                     ExecutionContext("a1", "a2", 1, SampleData, gas))
    /\ operations = <<>>
    /\ exec = Idle
    /\ SharedAbsent
    /\ NodeAbsent

\* entry of execute_operations, after parser.compile()
ExecuteOperations ==
    /\ exec = Idle
    /\ \E program \in Programs :
          /\ operations' = program
          /\ exec' = Running(vm, MaxSteps)
    /\ UNCHANGED <<vm, accounts, crashed, last>>
    /\ UNCHANGED sharedvars
    /\ UNCHANGED nodevars

ExecuteOperationsDeep ==
    /\ exec = Idle
    /\ \E program \in StackPrograms :
          /\ operations' = program
          /\ exec' = Running(vm, Len(program))
    /\ UNCHANGED <<vm, accounts, crashed, last>>
    /\ UNCHANGED sharedvars
    /\ UNCHANGED nodevars

\* self.pc += 1 (wrapping from usize::MAX in a release build)
NextPc(pc) == IF pc = UsizeMax THEN 0 ELSE pc + 1

\* one iteration of the while loop of execute_operations
LoopIteration ==
    /\ exec.state = "running"
    /\ vm.pc < Len(operations)
    /\ exec.steps < exec.budget
    /\ \E build \in (IF exec.build = "any" THEN Builds ELSE {exec.build}) :
          LET op == operations[vm.pc + 1]
              out == process_operation(vm, op, build)
              settles == process_operation(vm, op, "debug")
                            # process_operation(vm, op, "release")
              terminator == op.name \in {"Return", "Revert"}
              advanced == [out.vm EXCEPT !.pc = NextPc(@)]
              backward == out.kind = "Ok" /\ advanced.pc <= vm.pc
          IN /\ vm' = IF out.kind = "Ok" THEN advanced ELSE out.vm
             /\ exec' = [exec EXCEPT
                   !.state = IF out.kind = "Ok" THEN "running"
                             ELSE IF out.kind = "Err" THEN "failed"
                             ELSE "panicked",
                   !.execution_result = IF out.kind = "Ok" THEN out.result ELSE @,
                   !.error = out.error,
                   !.steps = @ + 1,
                   !.build = IF settles THEN build ELSE @,
                   !.charged = IF out.kind = "Ok" THEN @ + gas_cost_base(op) ELSE @,
                   !.jumped = @ \/ backward,
                   !.jumped_to = IF ~exec.jumped /\ backward THEN advanced ELSE @,
                   !.revisited = @ \/ (exec.jumped /\ out.kind = "Ok"
                                          /\ advanced = exec.jumped_to),
                   !.op = op,
                   !.before = vm,
                   !.halted = IF @ = "none" /\ out.kind = "Ok" /\ terminator
                              THEN op.name ELSE @,
                   !.halt_vm = IF exec.halted = "none" /\ out.kind = "Ok" /\ terminator
                               THEN advanced ELSE @,
                   !.halt_result = IF exec.halted = "none" /\ out.kind = "Ok" /\ terminator
                                   THEN out.result ELSE @]
             /\ crashed' = (out.kind = "Panic")
    /\ UNCHANGED <<operations, accounts, last>>
    /\ UNCHANGED sharedvars
    /\ UNCHANGED nodevars

\* the loop condition fails: execution_result.ok_or(NoOperationExecuted)
LoopExit ==
    /\ exec.state = "running"
    /\ ~(vm.pc < Len(operations))
    /\ exec' = [exec EXCEPT
          !.state = IF exec.execution_result = NoResult THEN "failed" ELSE "returned",
          !.error = IF exec.execution_result = NoResult
                    THEN "NoOperationExecuted" ELSE @]
    /\ UNCHANGED <<vm, operations, accounts, crashed, last>>
    /\ UNCHANGED sharedvars
    /\ UNCHANGED nodevars

VMNext == ExecuteOperations \/ LoopIteration \/ LoopExit

SpecVM == VMInit /\ [][VMNext]_vars

StackInit ==
    /\ accounts = EmptyMap
    /\ crashed = FALSE
    /\ last = NoCall
    /\ vm = VMNew(Contract(SampleCode, EmptyMap),
                  ExecutionContext("a1", "a2", 1, SampleData, 100000))
    /\ operations = <<>>
    /\ exec = Idle
    /\ SharedAbsent
    /\ NodeAbsent

StackNext == ExecuteOperationsDeep \/ LoopIteration \/ LoopExit

SpecStack == StackInit /\ [][StackNext]_vars

----------------------------------------------------------------------------
(* Claims about the virtual machine *)

\* an operation has been dispatched by the loop in this execution
Dispatched == exec.state \in {"running", "returned", "failed", "panicked"} /\ exec.steps > 0

\* the last dispatched operation returned Ok
LastStepOk == Dispatched /\ exec.state \in {"running", "returned"}

C8_TerminatorsTerminate ==
    /\ (Dispatched /\ exec.halted # "none") =>
          /\ vm = exec.halt_vm
          /\ exec.state \in {"running", "returned"}
          /\ exec.execution_result = exec.halt_result
          /\ (exec.execution_result.kind = "Revert") <=> (exec.halted = "Revert")
    /\ (Dispatched /\ exec.op.name = "Stop"
           /\ Len(exec.before.stack) >= min_stack_height(exec.op)) =>
          exec.state \in {"running", "returned"}

\* C9: the stack never holds more than MAX_STACK_SIZE entries, and a pushing
\* operation dispatched on a stack of MAX_STACK_SIZE entries fails with
\* StackFull and leaves the stack as it was.
C9_StackLimit ==
    /\ Len(vm.stack) <= MAX_STACK_SIZE
    /\ (Dispatched /\ Len(exec.before.stack) = MAX_STACK_SIZE
           /\ exec.op \in PusherOps) =>
          /\ exec.state = "failed"
          /\ exec.error = "StackFull"
          /\ vm.stack = exec.before.stack

\* C10: when the operation last dispatched found fewer items on the stack than
\* it pops, the execution has failed with NotEnoughItemsOnStack and the VM is
\* exactly as it was at dispatch (no operand has been popped).
C10_UnderflowIsClean ==
    (Dispatched /\ Len(exec.before.stack) < pops(exec.op)) =>
        /\ exec.state = "failed"
        /\ exec.error = "NotEnoughItemsOnStack"
        /\ vm = exec.before

\* the execution has returned to the caller of execute_operations
Returned == exec.state = "returned"

\* C11: the gas_used of the ExecutionResult that execute_operations returns is
\* the sum of the base costs of every operation the run executed (9 for
\* Push1 1, Push1 1, Add).
C11_GasUsedIsTotal ==
    Returned => exec.execution_result.gas_used = exec.charged

\* C12: the base costs of the operations executed so far never add up to more
\* than the gas budget of the context.
C12_ChargedWithinBudget ==
    exec.state \in {"running", "returned", "failed", "panicked"} =>
        exec.charged <= vm.context.gas

\* C13: every execution ends.  The step of the VM is a function of its state
\* (stack, memory, storage, journal, pc, gas_available), so an execution that
\* comes back to a state it has left before repeats forever: no execution
\* ever comes back to the state its first backward jump left it in.
C13_NoCycle ==
    exec.state \in {"running", "returned", "failed", "panicked"} => ~exec.revisited

----------------------------------------------------------------------------
(* Operation::from_byte and BytecodeParser *)

\* the arms of from_byte that yield an operation without an immediate
Opcodes ==
    {<<0, "Stop">>, <<1, "Add">>, <<2, "Mul">>, <<3, "Sub">>,
     <<4, "Div">>, <<5, "SDiv">>, <<6, "Mod">>, <<7, "SMod">>,
     <<8, "AddMod">>, <<9, "MulMod">>, <<10, "Exp">>, <<11, "SignExtend">>,
     <<16, "Lt">>, <<17, "Gt">>, <<18, "Slt">>, <<19, "Sgt">>,
     <<20, "Eq">>, <<21, "IsZero">>, <<22, "And">>, <<23, "Or">>,
     <<24, "Xor">>, <<25, "Not">>, <<26, "Byte">>, <<27, "Shl">>,
     <<28, "Shr">>, <<29, "Sar">>, <<48, "Address">>, <<49, "Balance">>,
     <<50, "Origin">>, <<51, "Caller">>, <<52, "CallValue">>, <<53, "CallDataLoad">>,
     <<54, "CallDataSize">>, <<55, "CallDataCopy">>, <<56, "CodeSize">>, <<57, "CodeCopy">>,
     <<58, "GasPrice">>, <<59, "ExtCodeSize">>, <<60, "ExtCodeCopy">>, <<61, "ReturnDataSize">>,
     <<62, "ReturnDataCopy">>, <<63, "ExtCodeHash">>, <<64, "BlockHash">>, <<65, "Coinbase">>,
     <<66, "Timestamp">>, <<67, "Number">>, <<68, "Difficulty">>, <<69, "GasLimit">>,
     <<70, "ChainId">>, <<71, "SelfBalance">>, <<72, "BaseFee">>, <<80, "Pop">>,
     <<81, "MLoad">>, <<82, "MStore">>, <<83, "MStore8">>, <<84, "SLoad">>,
     <<85, "SStore">>, <<86, "Jump">>, <<87, "JumpI">>, <<88, "PC">>,
     <<89, "MSize">>, <<90, "Gas">>, <<91, "JumpDest">>, <<144, "Swap1">>,
     <<145, "Swap2">>, <<159, "Swap16">>}

PushName(n) ==
    <<"Push1", "Push2", "Push3", "Push4", "Push5", "Push6", "Push7", "Push8",
      "Push9", "Push10", "Push11", "Push12", "Push13", "Push14", "Push15",
      "Push16", "Push17", "Push18", "Push19", "Push20", "Push21", "Push22",
      "Push23", "Push24", "Push25", "Push26", "Push27", "Push28", "Push29",
      "Push30", "Push31", "Push32">>[n]

\* Operation::from_byte: data is [some, value]
from_byte(byte, data) ==
    IF \E pair \in Opcodes : pair[1] = byte
    THEN [ok |-> TRUE, op |-> Op((CHOOSE pair \in Opcodes : pair[1] = byte)[2])]
    ELSE IF byte >= 96 /\ byte <= 127
    THEN IF data.some
         THEN [ok |-> TRUE, op |-> [name |-> PushName(byte - 96 + 1), arg |-> data.value]]
         ELSE [ok |-> FALSE, op |-> Op("None")]
    ELSE IF byte >= 128 /\ byte <= 143
    THEN [ok |-> TRUE, op |-> Dup(byte - 128 + 1)]
    ELSE [ok |-> FALSE, op |-> Op("None")]

\* Mutant: the byte is added without the shift.
ShiftIn_NoShift(value, byte) == (value + byte) % U256Modulus

\* value = value << 8; value = value + U256::from(byte)
ShiftIn(value, byte) == (value * 256 + byte) % U256Modulus

\* the immediate of a push: ShiftIn over bytes_to_read bytes
RECURSIVE ReadValue(_, _, _, _)
ReadValue(bytecode, from, bytes_to_read, value) ==
    IF bytes_to_read = 0 THEN value
    ELSE ReadValue(bytecode, from + 1, bytes_to_read - 1,
                   ShiftIn(value, bytecode[from + 1]))

\* Mutant: no sentinel check, 0xfe goes to from_byte like any other byte.
next_operation_NoSentinel(bytecode, pc) ==
    LET opcode == bytecode[pc + 1]
        bytes_to_read == opcode - 96 + 1
        decoded == IF opcode >= 96 /\ opcode <= 127
                   THEN from_byte(opcode, [some |-> TRUE,
                            value |-> ReadValue(bytecode, pc + 1, bytes_to_read, 0)])
                   ELSE from_byte(opcode, [some |-> FALSE, value |-> 0])
        after == IF opcode >= 96 /\ opcode <= 127 THEN pc + bytes_to_read + 1 ELSE pc + 1
    IN IF pc >= Len(bytecode) THEN [kind |-> "None", op |-> Op("None"), pc |-> pc]
       ELSE IF opcode >= 96 /\ opcode <= 127 /\ pc + bytes_to_read >= Len(bytecode)
       THEN [kind |-> "IncompletePush", op |-> Op("None"), pc |-> pc]
       ELSE IF ~decoded.ok THEN [kind |-> "InvalidOpcode", op |-> Op("None"), pc |-> after]
       ELSE [kind |-> "Some", op |-> decoded.op, pc |-> after]

\* BytecodeParser::next_operation at cursor pc: kind is "None" (Ok(None)),
\* "Some" (Ok(Some(op)), cursor moved to pc) or an error
next_operation(bytecode, pc) ==
    LET opcode == bytecode[pc + 1]
        bytes_to_read == opcode - 96 + 1
        decoded == IF opcode >= 96 /\ opcode <= 127
                   THEN from_byte(opcode, [some |-> TRUE,
                            value |-> ReadValue(bytecode, pc + 1, bytes_to_read, 0)])
                   ELSE from_byte(opcode, [some |-> FALSE, value |-> 0])
        after == IF opcode >= 96 /\ opcode <= 127 THEN pc + bytes_to_read + 1 ELSE pc + 1
    IN IF pc >= Len(bytecode) THEN [kind |-> "None", op |-> Op("None"), pc |-> pc]
       ELSE IF opcode = 254 THEN [kind |-> "None", op |-> Op("None"), pc |-> pc]
       ELSE IF opcode >= 96 /\ opcode <= 127 /\ pc + bytes_to_read >= Len(bytecode)
       THEN [kind |-> "IncompletePush", op |-> Op("None"), pc |-> pc]
       ELSE IF ~decoded.ok THEN [kind |-> "InvalidOpcode", op |-> Op("None"), pc |-> after]
       ELSE [kind |-> "Some", op |-> decoded.op, pc |-> after]

RECURSIVE CompileFrom(_, _, _)
CompileFrom(bytecode, pc, ops) ==
    LET n == next_operation(bytecode, pc)
    IN IF n.kind = "Some" THEN CompileFrom(bytecode, n.pc, Append(ops, n.op))
       ELSE IF n.kind = "None" THEN [ok |-> TRUE, operations |-> ops, error |-> ""]
       ELSE [ok |-> FALSE, operations |-> ops, error |-> n.kind]

\* BytecodeParser::new(bytecode).compile()
compile(bytecode) == CompileFrom(bytecode, 0, <<>>)

----------------------------------------------------------------------------
(* VM::execute_operations as a function of the VM, the code and the build *)

\* the while loop of execute_operations from the VM m with the last result
\* `result`; "Hang" when a VM that the loop has already been in recurs, so that
\* the loop never exits
RECURSIVE RunLoop(_, _, _, _, _)
RunLoop(m, ops, result, build, seen) ==
    IF ~(m.pc < Len(ops))
    THEN IF result = NoResult THEN ErrStep(m, "NoOperationExecuted")
         ELSE OkStep(m, result)
    ELSE IF m \in seen
    THEN [kind |-> "Hang", vm |-> m, result |-> NoResult, error |-> "hang"]
    ELSE LET out == process_operation(m, ops[m.pc + 1], build)
         IN IF out.kind = "Ok"
            THEN RunLoop([out.vm EXCEPT !.pc = NextPc(@)], ops, out.result,
                         build, seen \cup {m})
            ELSE out

execute_operations(m, code, build) ==
    LET compiled == compile(code)
    IN IF ~compiled.ok THEN ErrStep(m, "InvalidBytecode")
       ELSE RunLoop(m, compiled.operations, NoResult, build, {})

----------------------------------------------------------------------------
(* VM::execute_transaction *)

\* Address::ZERO, the recipient that encodes a creation
ZeroAddress == "a0"

\* last 20 bytes of keccak256(rlp(address, nonce)); injective here
generate_contract_address(address, nonce) ==
    CASE address = "a1" -> "c1_" \o ToString(nonce)
      [] address = "a2" -> "c2_" \o ToString(nonce)
      [] OTHER -> "c?_" \o ToString(nonce)

\* keccak256 of a byte buffer; injective on the buffers used here
hash_slice_to_b256(buffer) ==
    CASE buffer = <<>> -> "h()"
      [] buffer = <<96, 0, 96, 0, 85>> -> "h(init)"
      [] buffer = <<96, 1, 96, 0, 85, 1>> -> "h(store-fail)"
      [] buffer = <<96, 1, 243>> -> "h(undecodable)"
      [] OTHER -> "h(other)"

\* HashMap::insert on accounts: the entry at the address is added or replaced
InsertAccount_Only(accts, address, account) ==
    [a \in {address} |-> account]

InsertAccount(accts, address, account) ==
    [a \in DOMAIN accts \cup {address} |-> IF a = address THEN account ELSE accts[a]]

\* the outcome of a call on the VM that also works on the shared accounts
WithAccounts(step, accts, address) ==
    [kind |-> step.kind, vm |-> step.vm, result |-> step.result,
     error |-> step.error, accounts |-> accts, address |-> address]

call_contract_create(m, accts, tx, build) ==
    LET sender == get_sender_address(tx)
        contract_address == generate_contract_address(sender, tx.nonce)
        bound == [m EXCEPT !.context.address = contract_address]
        inserted == InsertAccount(accts, contract_address,
                        NewAccount(tx.value, hash_slice_to_b256(tx.input_data), ZERO))
    IN IF sender = "panic" THEN WithAccounts(PanicStep(m), accts, "none")
       ELSE IF sender = "none"
       THEN WithAccounts(ErrStep(m, "InvalidTransaction"), accts, "none")
       ELSE WithAccounts(execute_operations(bound, tx.input_data, build),
                         inserted, contract_address)

\* the slice input_data[0..4] panics on fewer than four bytes; the selector is
\* not used, and no code is run
call_contract(m, accts, tx) ==
    IF Len(tx.input_data) < 4 THEN WithAccounts(PanicStep(m), accts, "none")
    ELSE WithAccounts(OkStep([m EXCEPT !.pc = 0, !.stack = <<>>, !.memory = <<>>],
                             Success(0)),
                      accts, "none")

execute_transaction(m, accts, tx, build) ==
    IF tx.to = ZeroAddress THEN call_contract_create(m, accts, tx, build)
    ELSE call_contract(m, accts, tx)

----------------------------------------------------------------------------
(* Executor::process_transaction_contract *)

\* The guard of state.lock() is a temporary of the `let contract` statement:
\* the lock is released once the contract has been cloned.  Nothing is written
\* to the state's contracts afterwards.
\* the VM that process_transaction_contract constructs, NoVM when it constructs none
executor_vm(held, tx) ==
    LET sender == get_sender_address(tx)
    IN IF tx.to \notin DOMAIN held \/ sender \in {"panic", "none"} THEN NoVM
       ELSE VMNew(held[tx.to],
                  ExecutionContext(sender, tx.to, tx.value, tx.input_data,
                                   tx.gas_limit))

process_transaction_contract(accts, held, tx, build) ==
    IF tx.to \notin DOMAIN held
    THEN WithAccounts(ErrStep(NoVM, "ContractNotFound"), accts, "none")
    ELSE IF get_sender_address(tx) \in {"panic", "none"}
    THEN WithAccounts(PanicStep(NoVM), accts, "none")
    ELSE execute_transaction(executor_vm(held, tx), accts, tx, build)

----------------------------------------------------------------------------
(* Contracts, transactions to them, and the calls made with them *)

\* PUSH1 0, PUSH1 0, SSTORE: sets the counter slot 0 to 0
InitCode == <<96, 0, 96, 0, 85>>

\* PUSH1 1, PUSH1 0, SLOAD, ADD, PUSH1 0, SSTORE: increments the counter slot 0
IncCode == <<96, 1, 96, 0, 84, 1, 96, 0, 85>>

\* PUSH1 1, PUSH1 0, SSTORE, ADD: writes slot 0, then fails on an empty stack
StoreFailCode == <<96, 1, 96, 0, 85, 1>>

\* PUSH1 1, then 0xf3, which Operation::from_byte does not decode
UndecodableCode == <<96, 1, 243>>

\* first four bytes of keccak256("inc()")
IncSelector == <<55, 19, 3, 192>>

ShortInput == <<55>>

\* the address of a contract deployed by an account whose key is not in Keys
DeployedAddress == generate_contract_address("a3", 0)

CreationTransactions ==
    { NewTransaction(ZeroAddress, 1, TRANSACTION_GAS_COST, 1, 1, code, key) :
        code \in {InitCode, StoreFailCode, UndecodableCode},
        key \in {"k1", "none"} }

CallTransactions ==
    { NewTransaction(to, 0, TRANSACTION_GAS_COST, 1, 1, input, key) :
        to \in {DeployedAddress, "a1"}, input \in {IncSelector, ShortInput},
        key \in {"k1", "none"} }

ContractTransactions == CreationTransactions \cup CallTransactions

TransferTransactions ==
    { NewTransaction(to, 1, TRANSACTION_GAS_COST, 1, 1, <<>>, "k1") :
        to \in {"a2", DeployedAddress} }

\* the VM a caller constructs around the counter's code, before any transaction
CallerVM ==
    VMNew(Contract(IncCode, EmptyMap), ExecutionContext("a1", "a1", 0, <<>>, 100000))

\* the contracts the state holds: the counter at slot value 0 or 1, or none
GenesisContracts ==
    {<<>>} \cup { [a \in {DeployedAddress} |-> Contract(IncCode, [k \in {0} |-> v])] :
                  v \in 0..1 }

\* the accounts of the holders of keys, and one for every contract held
GenesisAccounts(held) ==
    [a \in {"a1"} \cup DOMAIN held |->
        IF a = "a1" THEN NewAccount(2 * TRANSACTION_GAS_COST + 1, ZERO, ZERO)
        ELSE NewAccount(0, hash_slice_to_b256(held[a].code), ZERO)]

VMCall(op, tx, pre, pre_vm, out) ==
    [op |-> op, tx |-> tx, pre |-> pre, pre_vm |-> pre_vm,
     kind |-> out.kind, result |-> out.result, error |-> out.error,
     vm |-> out.vm, address |-> out.address]

ContractInit ==
    /\ contracts \in GenesisContracts
    /\ accounts = GenesisAccounts(contracts)
    /\ crashed = FALSE
    /\ last = NoCall
    /\ vm = CallerVM
    /\ operations = <<>>
    /\ exec = NoExec
    /\ lock = "free"
    /\ threads = <<>>
    /\ NodeAbsent

\* The caller hands a transaction to its VM, as test_contract_basics does.
VMExecuteTransaction ==
    /\ ~crashed
    /\ last = NoCall
    /\ \E tx \in ContractTransactions, build \in Builds :
         LET out == execute_transaction(vm, accounts, tx, build)
         IN /\ vm' = out.vm
            /\ accounts' = out.accounts
            /\ crashed' = (out.kind \notin {"Ok", "Err"})
            /\ last' = VMCall("VM::execute_transaction", tx, accounts, vm, out)
    /\ UNCHANGED <<operations, exec>>
    /\ UNCHANGED sharedvars
    /\ UNCHANGED nodevars

\* A caller hands a transaction to Executor::process_transaction_contract; the
\* VM is local to the call.
ExecutorProcessTransactionContract ==
    /\ ~crashed
    /\ last = NoCall
    /\ \E tx \in ContractTransactions, build \in Builds :
         LET out == process_transaction_contract(accounts, contracts, tx, build)
         IN /\ accounts' = out.accounts
            /\ crashed' = (out.kind \notin {"Ok", "Err"})
            /\ last' = VMCall("Executor::process_transaction_contract", tx,
                              accounts, executor_vm(contracts, tx), out)
    /\ UNCHANGED vmvars
    /\ UNCHANGED sharedvars
    /\ UNCHANGED nodevars

\* A caller hands a transfer to Executor::process_transaction.
ExecutorTransfer ==
    /\ ~crashed
    /\ last = NoCall
    /\ \E tx \in TransferTransactions, build \in Builds :
         LET out == process_transaction(accounts, tx, 1, build)
         IN /\ accounts' = out.accounts
            /\ crashed' = (out.result = "panic")
            /\ last' = Call("Executor::process_transaction", tx, 1,
                            get_sender_address(tx), accounts, out.result)
    /\ UNCHANGED vmvars
    /\ UNCHANGED sharedvars
    /\ UNCHANGED nodevars

ContractNext ==
    \/ VMExecuteTransaction
    \/ ExecutorProcessTransactionContract
    \/ ExecutorTransfer
    \/ CallReturns

SpecContract == ContractInit /\ [][ContractNext]_vars

----------------------------------------------------------------------------
(* Claims about contract calls and creations *)

\* the call last made was VM::execute_transaction on the caller's VM
VMCalled == last.op = "VM::execute_transaction"

\* the call last made was Executor::process_transaction_contract
ExecutorCalled == last.op = "Executor::process_transaction_contract"

\* the VM as a call starts on it: pc = 0, empty stack and memory, the
\* transaction's input_data as calldata
CallStart(m, tx) ==
    [m EXCEPT !.pc = 0, !.stack = <<>>, !.memory = <<>>,
              !.context.data = tx.input_data]

\* C14: after execute_transaction with a non-zero tx.to has returned Ok, the
\* VM's contract storage is the storage that running the contract's code from
\* pc = 0 with tx.input_data as calldata gives (a counter slot at 0 is at 1
\* after the increment code has run).
C14_CallRunsDeployedCode ==
    (VMCalled /\ last.tx.to # ZeroAddress /\ last.kind = "Ok") =>
        \A build \in Builds :
            LET ran == execute_operations(CallStart(last.pre_vm, last.tx),
                                          last.pre_vm.contract.code, build)
            IN ran.kind = "Ok" => vm.contract.storage = ran.vm.contract.storage

\* C15: a creation transaction derives an address at which no account exists
\* yet: accounts at derived addresses come from creations only, so a sender's
\* successive creations derive different addresses and none replaces the
\* account inserted by an earlier one.
C15_CreationAddressIsNew ==
    (VMCalled /\ last.address # "none") => last.address \notin DOMAIN last.pre

\* C16: when a creation has ended in a VM error or in Revert, the accounts map
\* holds no account at the derived address that was not there before the call.
C16_FailedCreationLeavesNoAccount ==
    (VMCalled /\ last.address # "none"
        /\ (last.kind = "Err" \/ last.result.kind = "Revert")) =>
        (last.address \in DOMAIN accounts => last.address \in DOMAIN last.pre)

\* C17: when execute_transaction has failed with a VM error, the contract
\* storage of the VM is what it was before the execution.
C17_FailureRollsBackStorage ==
    (VMCalled /\ last.kind = "Err") =>
        vm.contract.storage = last.pre_vm.contract.storage

\* C18: after process_transaction_contract has returned Ok, the contract held
\* by the shared state at tx.to has the storage that the VM's run of the
\* contract's code gives, so that the next transaction to it reads the writes.
C18_ExecutorWritesBack ==
    (ExecutorCalled /\ last.kind = "Ok") =>
        \A build \in Builds :
            LET ran == execute_operations(CallStart(last.pre_vm, last.tx),
                                          last.pre_vm.contract.code, build)
            IN ran.kind = "Ok" =>
                  contracts[last.tx.to].storage = ran.vm.contract.storage

----------------------------------------------------------------------------
(* Threads that share the state behind Arc<Mutex<State>> *)

ThreadIds == {"t1", "t2"}

Job(op, tx, evm) == [pc |-> "start", op |-> op, tx |-> tx, evm |-> evm]

\* one transaction per thread: a transfer through Executor::process_transaction,
\* a transaction through Executor::process_transaction_contract, or a creation
\* on a VM the thread has constructed over the shared state
Jobs ==
    { Job("process_transaction", tx, NoVM) :
        tx \in TransferTransactions \cup
               { NewTransaction(generate_contract_address("a1", 0), 1,
                                TRANSACTION_GAS_COST, 1, 1, <<>>, "k1") } }
    \cup
    { Job("process_transaction_contract", tx, NoVM) :
        tx \in { t \in CallTransactions : t.signature.kind = "signed" } }
    \cup
    { Job("execute_transaction", tx, CallerVM) :
        tx \in { t \in CreationTransactions : t.signature.kind = "signed" } }

ThreadsInit ==
    /\ contracts \in GenesisContracts
    /\ accounts = GenesisAccounts(contracts)
    /\ crashed = FALSE
    /\ last = NoCall
    /\ VMAbsent
    /\ lock = "free"
    /\ threads \in [ThreadIds -> Jobs]
    /\ NodeAbsent

\* state.lock().unwrap() at the head of process_transaction and of the `let
\* contract` statement of process_transaction_contract; a poisoned mutex panics
LockState(t) ==
    /\ threads[t].pc = "start"
    /\ threads[t].op \in {"process_transaction", "process_transaction_contract"}
    /\ lock = "free"
    /\ lock' = IF crashed THEN "free" ELSE t
    /\ threads' = [threads EXCEPT ![t].pc = IF crashed THEN "panicked" ELSE "locked"]
    /\ UNCHANGED <<accounts, crashed, last, contracts>>
    /\ UNCHANGED vmvars
    /\ UNCHANGED nodevars

\* process_transaction: the guard lives to the end of the function; a panic
\* under it poisons the mutex
TransferUnderLock(t) ==
    /\ threads[t].pc = "locked"
    /\ threads[t].op = "process_transaction"
    /\ lock = t
    /\ \E build \in Builds :
         LET out == process_transaction(accounts, threads[t].tx, 1, build)
         IN /\ accounts' = out.accounts
            /\ crashed' = (out.result = "panic")
            /\ threads' = [threads EXCEPT
                  ![t].pc = IF out.result = "panic" THEN "panicked" ELSE "done"]
    /\ lock' = "free"
    /\ UNCHANGED <<last, contracts>>
    /\ UNCHANGED vmvars
    /\ UNCHANGED nodevars

\* process_transaction_contract: the contract is cloned and the guard dropped
\* at the end of the statement; then the VM is constructed
CloneContract(t) ==
    /\ threads[t].pc = "locked"
    /\ threads[t].op = "process_transaction_contract"
    /\ lock = t
    /\ lock' = "free"
    /\ LET tx == threads[t].tx
           evm == executor_vm(contracts, tx)
       IN threads' = [threads EXCEPT
             ![t].pc = IF tx.to \notin DOMAIN contracts THEN "done"
                       ELSE IF evm = NoVM THEN "panicked"
                       ELSE "vm",
             ![t].evm = evm]
    /\ UNCHANGED <<accounts, crashed, last, contracts>>
    /\ UNCHANGED vmvars
    /\ UNCHANGED nodevars

\* the thread's own VM enters execute_transaction
EnterVM(t) ==
    /\ threads[t].pc = "start"
    /\ threads[t].op = "execute_transaction"
    /\ threads' = [threads EXCEPT ![t].pc = "vm"]
    /\ UNCHANGED <<accounts, crashed, last, contracts, lock>>
    /\ UNCHANGED vmvars
    /\ UNCHANGED nodevars

\* execute_transaction with a non-zero tx.to: call_contract takes no lock
VMCallContract(t) ==
    /\ threads[t].pc = "vm"
    /\ threads[t].tx.to # ZeroAddress
    /\ LET out == call_contract(threads[t].evm, accounts, threads[t].tx)
       IN threads' = [threads EXCEPT
             ![t].pc = IF out.kind = "Panic" THEN "panicked" ELSE "done",
             ![t].evm = out.vm]
    /\ UNCHANGED <<accounts, crashed, last, contracts, lock>>
    /\ UNCHANGED vmvars
    /\ UNCHANGED nodevars

\* call_contract_create up to the insertion: the lock is taken for the
\* statement that inserts the account, and released at its end
VMCreateInsert(t) ==
    /\ threads[t].pc = "vm"
    /\ threads[t].tx.to = ZeroAddress
    /\ lock = "free"
    /\ \E build \in Builds :
         LET out == call_contract_create(threads[t].evm, accounts, threads[t].tx, build)
             unlocked == out.address = "none" \/ crashed
         IN /\ accounts' = IF crashed THEN accounts ELSE out.accounts
            /\ threads' = [threads EXCEPT
                  ![t].pc = IF out.kind = "Panic" \/ crashed THEN "panicked"
                            ELSE IF unlocked THEN "done"
                            ELSE "init_code",
                  ![t].evm = IF unlocked THEN @
                             ELSE [@ EXCEPT !.context.address = out.address]]
    /\ UNCHANGED <<crashed, last, contracts, lock>>
    /\ UNCHANGED vmvars
    /\ UNCHANGED nodevars

\* call_contract_create from the insertion on: execute_operations on the init code
VMRunInitCode(t) ==
    /\ threads[t].pc = "init_code"
    /\ \E build \in Builds :
         LET out == execute_operations(threads[t].evm, threads[t].tx.input_data, build)
         IN threads' = [threads EXCEPT
               ![t].pc = IF out.kind \in {"Ok", "Err"} THEN "done" ELSE "panicked",
               ![t].evm = out.vm]
    /\ UNCHANGED <<accounts, crashed, last, contracts, lock>>
    /\ UNCHANGED vmvars
    /\ UNCHANGED nodevars

ThreadsNext ==
    \E t \in ThreadIds :
        \/ LockState(t)
        \/ TransferUnderLock(t)
        \/ CloneContract(t)
        \/ EnterVM(t)
        \/ VMCallContract(t)
        \/ VMCreateInsert(t)
        \/ VMRunInitCode(t)

SpecThreads == ThreadsInit /\ [][ThreadsNext]_vars

\* the accounts after the thread's transaction has run alone on accts
RunAlone(accts, job, build) ==
    IF job.op = "process_transaction"
    THEN process_transaction(accts, job.tx, 1, build).accounts
    ELSE IF job.op = "process_transaction_contract"
    THEN process_transaction_contract(accts, contracts, job.tx, build).accounts
    ELSE execute_transaction(job.evm, accts, job.tx, build).accounts

\* thread t is inside the VM's execution of its transaction
InVM(t) == threads[t].pc \in {"vm", "init_code"}

Finished == \A t \in ThreadIds : threads[t].pc \in {"done", "panicked"}

\* C19: a thread inside the VM's execution of its transaction holds the state
\* lock; no thread is about to acquire the lock while holding it; and once both
\* threads have finished, the accounts are those of running the two
\* transactions one after the other in some order.
C19_LockHeldThroughout ==
    /\ \A t \in ThreadIds : InVM(t) => lock = t
    /\ \A t \in ThreadIds : threads[t].pc \in {"start", "vm"} => lock # t
    /\ Finished =>
          \E first \in ThreadIds, build \in Builds :
              \E second \in ThreadIds \ {first} :
                  accounts = RunAlone(RunAlone(GenesisAccounts(contracts),
                                               threads[first], build),
                                      threads[second], build)

----------------------------------------------------------------------------
(* BytecodeParser instances *)

MaxCodeLen == 3

\* ADD, PUSH1, PUSH2, 0xf3 (not decoded by from_byte) and the sentinel 0xfe
CodeBytes == {1, 96, 97, 243, 254}

Bytecodes == UNION { [1..n -> CodeBytes] : n \in 0..MaxCodeLen }

\* what may follow a sentinel: nothing, an undecodable byte, an incomplete push
Tails == {<<>>, <<243>>, <<97, 1>>}

ParserIds == {"p1", "p2"}

\* Operation::opcode
opcode(op) ==
    CASE op.name = "Stop" -> 0
      [] op.name = "Add" -> 1
      [] op.name = "Mul" -> 2
      [] op.name = "Sub" -> 3
      [] op.name = "Div" -> 4
      [] op.name = "SStore" -> 85
      [] op.name = "SLoad" -> 84
      [] OTHER -> 0

Unborn == [state |-> "unborn"]

\* BytecodeParser::new, with the interface its owner will use and the history
\* of the decoding: the opcode bytes of the operations yielded, whether a push
\* with too few bytes after it was met, the error next_operation returned, and
\* of its last call the cursor it started from and the kind of its result
BytecodeParserNew(bytecode, interface) ==
    [state |-> "decoding", bytecode |-> bytecode, pc |-> 0, interface |-> interface,
     operations |-> <<>>, error |-> "", bytes |-> <<>>, short |-> FALSE,
     at |-> 0, kind |-> "New"]

\* Mutant: one cursor shared by the instances.
Cursor_Shared(ps, i) == ps[CHOOSE j \in ParserIds : TRUE].pc

\* self.pc
Cursor(ps, i) == ps[i].pc

\* the opcode byte under the cursor is a push with fewer bytes after it than its width
PushCutShort(bytecode, pc) ==
    /\ pc < Len(bytecode)
    /\ bytecode[pc + 1] >= 96
    /\ bytecode[pc + 1] <= 127
    /\ Len(bytecode) - (pc + 1) < bytecode[pc + 1] - 95

\* the instance after next_operation has returned n from cursor pc
Stepped(p, pc, n) ==
    [p EXCEPT !.pc = n.pc,
              !.operations = IF n.kind = "Some" THEN Append(@, n.op) ELSE @,
              !.bytes = IF n.kind = "Some" THEN Append(@, p.bytecode[pc + 1]) ELSE @,
              !.short = @ \/ PushCutShort(p.bytecode, pc),
              !.at = pc,
              !.kind = n.kind,
              !.error = IF n.kind \in {"Some", "None"} THEN @ ELSE n.kind]

ParsersInit ==
    /\ parsers = [i \in ParserIds |-> Unborn]
    /\ signing = [state |-> "none"]
    /\ app = [state |-> "none"]
    /\ accounts = <<>>
    /\ crashed = FALSE
    /\ last = NoCall
    /\ VMAbsent
    /\ SharedAbsent

\* the first instance is constructed over some bytes
ParserNew ==
    /\ parsers["p1"] = Unborn
    /\ \E bytecode \in Bytecodes, interface \in {"compile", "iterator"} :
         parsers' = [parsers EXCEPT !["p1"] = BytecodeParserNew(bytecode, interface)]
    /\ UNCHANGED <<signing, app, accounts, crashed, last>>
    /\ UNCHANGED vmvars
    /\ UNCHANGED sharedvars

\* the second instance is constructed, whatever the first has decoded so far,
\* over the same bytes or over these bytes, a sentinel and a tail
ParserNewOver ==
    /\ parsers["p1"] # Unborn
    /\ parsers["p2"] = Unborn
    /\ \E bytecode \in {parsers["p1"].bytecode}
                        \cup { parsers["p1"].bytecode \o <<254>> \o tail : tail \in Tails },
          interface \in {"compile", "iterator"} :
         parsers' = [parsers EXCEPT !["p2"] = BytecodeParserNew(bytecode, interface)]
    /\ UNCHANGED <<signing, app, accounts, crashed, last>>
    /\ UNCHANGED vmvars
    /\ UNCHANGED sharedvars

\* one round of `while let Some(operation) = self.next_operation()?` in compile
CompileStep(i) ==
    /\ parsers[i].state = "decoding"
    /\ parsers[i].interface = "compile"
    /\ LET pc == Cursor(parsers, i)
           n == next_operation(parsers[i].bytecode, pc)
       IN parsers' = [parsers EXCEPT
             ![i] = [Stepped(@, pc, n) EXCEPT
                        !.state = IF n.kind = "Some" THEN "decoding"
                                  ELSE IF n.kind = "None" THEN "ok"
                                  ELSE "err"]]
    /\ UNCHANGED <<signing, app, accounts, crashed, last>>
    /\ UNCHANGED vmvars
    /\ UNCHANGED sharedvars

\* Iterator::next, called by a loop that ends at the first None:
\* self.next_operation().ok().flatten()
IteratorNext(i) ==
    /\ parsers[i].state = "decoding"
    /\ parsers[i].interface = "iterator"
    /\ LET pc == Cursor(parsers, i)
           n == next_operation(parsers[i].bytecode, pc)
       IN parsers' = [parsers EXCEPT
             ![i] = [Stepped(@, pc, n) EXCEPT
                        !.state = IF n.kind = "Some" THEN "decoding" ELSE "ok"]]
    /\ UNCHANGED <<signing, app, accounts, crashed, last>>
    /\ UNCHANGED vmvars
    /\ UNCHANGED sharedvars

ParsersNext ==
    \/ ParserNew
    \/ ParserNewOver
    \/ \E i \in ParserIds : CompileStep(i)
    \/ \E i \in ParserIds : IteratorNext(i)

SpecParsers == ParsersInit /\ [][ParsersNext]_vars

\* the instance has handed its result to its owner
Decoded(i) == parsers[i].state \in {"ok", "err"}

\* what the owner of the instance has got: Ok or Err, the operations, the error
Yielded(i) ==
    <<parsers[i].state, parsers[i].operations,
      IF parsers[i].state = "err" THEN parsers[i].error ELSE "">>

C22_IncompletePushReported ==
    \A i \in ParserIds :
        Decoded(i) =>
            (parsers[i].short <=> Yielded(i)[1] = "err" /\ Yielded(i)[3] = "IncompletePush")

\* bytecode j is bytecode i, a sentinel, and any bytes
SentinelAppended(i, j) ==
    /\ Len(parsers[j].bytecode) > Len(parsers[i].bytecode)
    /\ SubSeq(parsers[j].bytecode, 1, Len(parsers[i].bytecode)) = parsers[i].bytecode
    /\ parsers[j].bytecode[Len(parsers[i].bytecode) + 1] = 254

\* C23: when bytes decode without error, the same bytes followed by 0xFE and
\* anything else give the same result (nothing is yielded for the sentinel and
\* no operation or error comes from what follows it); and 0xFE as the immediate
\* of a push is yielded as that push's value.
C23_SentinelStops ==
    /\ \A i, j \in ParserIds :
          (Decoded(i) /\ Decoded(j) /\ parsers[i].error = ""
              /\ parsers[i].interface = parsers[j].interface
              /\ SentinelAppended(i, j)) =>
              Yielded(j) = Yielded(i)
    /\ \A i \in ParserIds :
          (Decoded(i) /\ Len(parsers[i].bytecode) >= 2
              /\ parsers[i].bytecode[1] = 96 /\ parsers[i].bytecode[2] = 254) =>
              /\ Len(parsers[i].operations) >= 1
              /\ parsers[i].operations[1] = Push1(254)

\* operations were decoded, then a sentinel and a tail that is no valid code
C23_Witness ==
    /\ Decoded("p1")
    /\ Decoded("p2")
    /\ parsers["p1"].error = ""
    /\ parsers["p1"].interface = "compile"
    /\ parsers["p2"].interface = "compile"
    /\ SentinelAppended("p1", "p2")
    /\ Len(parsers["p2"].bytecode) > Len(parsers["p1"].bytecode) + 1
    /\ Len(parsers["p1"].operations) >= 1

\* C24: every operation an instance has yielded has the opcode byte it was
\* decoded from, and from_byte of its opcode() gives the operation back.
C24_OpcodeRoundTrip ==
    \A i \in ParserIds :
        parsers[i] # Unborn =>
            \A k \in 1..Len(parsers[i].operations) :
                LET op == parsers[i].operations[k]
                    back == from_byte(opcode(op), [some |-> TRUE, value |-> op.arg])
                IN /\ opcode(op) = parsers[i].bytes[k]
                   /\ back.ok
                   /\ back.op = op

----------------------------------------------------------------------------
(* A caller that builds, signs and checks a Transaction *)

\* the transaction held, the key of the last sign() if no field was written
\* since, and what the calls on it have returned so far
Held(tx, key) ==
    [state |-> "held", tx |-> tx, signed_by |-> key, verified |-> "unknown",
     sender |-> "unknown", processed |-> "unknown"]

SigningAccounts == [a \in {"a1"} |-> NewAccount(2 * TRANSACTION_GAS_COST + 1, ZERO, ZERO)]

SigningInit ==
    /\ signing = [state |-> "none"]
    /\ parsers = <<>>
    /\ app = [state |-> "none"]
    /\ accounts = SigningAccounts
    /\ crashed = FALSE
    /\ last = NoCall
    /\ VMAbsent
    /\ SharedAbsent

\* Transaction::new, with or without a private key
TransactionNew ==
    /\ signing.state = "none"
    /\ \E to \in {"a1", "a2"}, value \in 0..MaxValue, prio \in 0..MaxPriorityFee,
          cap \in 1..MaxFeeCap, key \in Keys \cup {"none"} :
         signing' = Held(NewTransaction(to, value, TRANSACTION_GAS_COST, prio, cap,
                                        <<>>, key), key)
    /\ UNCHANGED <<parsers, app, accounts, crashed, last>>
    /\ UNCHANGED vmvars
    /\ UNCHANGED sharedvars

\* tx.sign(&private_key)
Sign ==
    /\ ~crashed
    /\ signing.state = "held"
    /\ \E key \in Keys : signing' = Held(sign(signing.tx, key), key)
    /\ UNCHANGED <<parsers, app, accounts, crashed, last>>
    /\ UNCHANGED vmvars
    /\ UNCHANGED sharedvars

\* the caller writes the public field value
SetValue ==
    /\ ~crashed
    /\ signing.state = "held"
    /\ \E value \in 0..MaxValue :
         /\ value # signing.tx.value
         /\ signing' = Held([signing.tx EXCEPT !.value = value], "none")
    /\ UNCHANGED <<parsers, app, accounts, crashed, last>>
    /\ UNCHANGED vmvars
    /\ UNCHANGED sharedvars

\* tx.verify_signature()
VerifySignature ==
    /\ ~crashed
    /\ signing.state = "held"
    /\ signing.verified = "unknown"
    /\ signing' = [signing EXCEPT !.verified = verify_signature(signing.tx)]
    /\ crashed' = (verify_signature(signing.tx) = "panic")
    /\ UNCHANGED <<parsers, app, accounts, last>>
    /\ UNCHANGED vmvars
    /\ UNCHANGED sharedvars

\* tx.get_sender_address()
GetSenderAddress ==
    /\ ~crashed
    /\ signing.state = "held"
    /\ signing.sender = "unknown"
    /\ signing' = [signing EXCEPT !.sender = get_sender_address(signing.tx)]
    /\ crashed' = (get_sender_address(signing.tx) = "panic")
    /\ UNCHANGED <<parsers, app, accounts, last>>
    /\ UNCHANGED vmvars
    /\ UNCHANGED sharedvars

\* Executor::process_transaction(&tx, base_fee, state)
ProcessHeld ==
    /\ ~crashed
    /\ signing.state = "held"
    /\ signing.processed = "unknown"
    /\ \E build \in Builds :
         LET out == process_transaction(accounts, signing.tx, 1, build)
         IN /\ signing' = [signing EXCEPT !.processed = out.result]
            /\ accounts' = out.accounts
            /\ crashed' = (out.result = "panic")
    /\ UNCHANGED <<parsers, app, last>>
    /\ UNCHANGED vmvars
    /\ UNCHANGED sharedvars

SigningNext ==
    \/ TransactionNew
    \/ Sign
    \/ SetValue
    \/ VerifySignature
    \/ GetSenderAddress
    \/ ProcessHeld

SpecSigning == SigningInit /\ [][SigningNext]_vars

\* the transaction held was signed with a key and no field was written since
FreshlySigned == signing.state = "held" /\ signing.signed_by \in Keys

\* C25: on a transaction signed with key k and not written since,
\* verify_signature returns true and get_sender_address returns the address
\* of k's wallet.
C25_SignThenVerify ==
    FreshlySigned =>
        /\ signing.verified \in {"unknown", "true"}
        /\ signing.sender \in {"unknown", to_address(signing.signed_by)}

\* a transaction built unsigned, then signed, has been verified and its
\* sender recovered
C25_Witness ==
    /\ FreshlySigned
    /\ signing.verified = "true"
    /\ signing.sender = to_address(signing.signed_by)
    /\ signing.tx.signature_parity

\* the transaction held carries the all-zero signature of Transaction::new
\* without a key, or a signature from which no key is recovered
Unrecoverable ==
    /\ signing.state = "held"
    /\ signing.tx.signature.kind \in {"zero", "unrecoverable"}

\* C26: on a transaction whose signature cannot be recovered, nothing panics:
\* get_sender_address returns None, verify_signature returns false, and
\* process_transaction returns InvalidTransaction and leaves the accounts.
C26_UnrecoverableIsRejected ==
    Unrecoverable =>
        /\ ~crashed
        /\ signing.sender \in {"unknown", "none"}
        /\ signing.verified \in {"unknown", "false"}
        /\ signing.processed \in {"unknown", "InvalidTransaction"}
        /\ accounts = SigningAccounts

----------------------------------------------------------------------------
(* App: the channel and the block loop *)

MaxQueued == 3
MaxSlots == 4

\* App::new: base_fee: 10
AppBaseFee == 10

\* what a producer sends: a transfer that succeeds, one whose fee cap is below
\* the base fee, and one built without a private key
AppTransactions ==
    { NewTransaction("a2", 1, TRANSACTION_GAS_COST, 0, AppBaseFee, <<>>, "k1"),
      NewTransaction("a2", 1, TRANSACTION_GAS_COST, 0, AppBaseFee - 1, <<>>, "k1"),
      NewTransaction("a2", 1, TRANSACTION_GAS_COST, 0, AppBaseFee, <<>>, "none") }

AppAccounts ==
    [a \in {"a1"} |-> NewAccount(2 * (TRANSACTION_GAS_COST * AppBaseFee + 1), ZERO, ZERO)]

\* Block::new(self.slot, proposer_index, parent_root, state_root)
Block(slot) == [slot |-> slot, proposer_index |-> 0, parent_root |-> ZERO,
                state_root |-> ZERO]

\* App::new, with the history of the channel: the number of transactions sent,
\* the ones processed in order with their results, the longest the queue has been
AppNew ==
    [state |-> "running", queue |-> <<>>, running |-> TRUE, blocks |-> <<>>,
     slot |-> 0, base_fee |-> AppBaseFee, pc |-> "execute",
     sent |-> 0, processed |-> <<>>, backlog |-> 0]

\* Mutant: the newest transaction is received first.
try_recv_Newest(queue) ==
    IF queue = <<>> THEN [ok |-> FALSE, item |-> <<>>, rest |-> queue]
    ELSE [ok |-> TRUE, item |-> queue[Len(queue)],
          rest |-> SubSeq(queue, 1, Len(queue) - 1)]

\* self.tx_recv.try_recv() on the mpsc channel
try_recv(queue) ==
    IF queue = <<>> THEN [ok |-> FALSE, item |-> <<>>, rest |-> queue]
    ELSE [ok |-> TRUE, item |-> Head(queue), rest |-> Tail(queue)]

AppInit ==
    /\ app = AppNew
    /\ parsers = <<>>
    /\ signing = [state |-> "none"]
    /\ accounts = AppAccounts
    /\ crashed = FALSE
    /\ last = NoCall
    /\ VMAbsent
    /\ SharedAbsent

\* tx_send.send(tx): the transaction is numbered in the order of sending
Send ==
    /\ app.sent < MaxQueued
    /\ \E tx \in AppTransactions :
         app' = [app EXCEPT
                   !.queue = Append(@, [id |-> app.sent + 1, from |-> "a1", tx |-> tx]),
                   !.sent = @ + 1,
                   !.backlog = IF Len(app.queue) + 1 > @ THEN Len(app.queue) + 1 ELSE @]
    /\ UNCHANGED <<parsers, signing, accounts, crashed, last>>
    /\ UNCHANGED vmvars
    /\ UNCHANGED sharedvars

\* execute_transactions, at the head of a round of the loop of run: a panic in
\* process_transaction unwinds run
ExecuteTransactions ==
    /\ app.running
    /\ app.pc = "execute"
    /\ app.slot < MaxSlots
    /\ \E build \in Builds :
         LET received == try_recv(app.queue)
             out == state_process_transaction(accounts, received.item.from,
                                              received.item.tx, app.base_fee, build)
         IN IF ~received.ok
            THEN /\ app' = [app EXCEPT !.pc = "block"]
                 /\ UNCHANGED <<accounts, crashed>>
            ELSE /\ app' = [app EXCEPT
                       !.queue = received.rest,
                       !.processed = Append(@, [id |-> received.item.id,
                                                result |-> out.result,
                                                slot |-> app.slot]),
                       !.pc = IF out.result = "panic" THEN "dead" ELSE "block"]
                 /\ accounts' = out.accounts
                 /\ crashed' = (out.result = "panic")
    /\ UNCHANGED <<parsers, signing, last>>
    /\ UNCHANGED vmvars
    /\ UNCHANGED sharedvars

\* the rest of the round: the next block is pushed, slot += 1, then the sleep
AppendBlock ==
    /\ app.running
    /\ app.pc = "block"
    /\ app' = [app EXCEPT !.blocks = Append(@, Block(app.slot)),
                          !.slot = @ + 1,
                          !.pc = "execute"]
    /\ UNCHANGED <<parsers, signing, accounts, crashed, last>>
    /\ UNCHANGED vmvars
    /\ UNCHANGED sharedvars

AppNext ==
    \/ Send
    \/ ExecuteTransactions
    \/ AppendBlock

SpecApp == AppInit /\ [][AppNext]_vars

\* C27: the transactions processed so far are the first ones sent, in the
\* order of sending, and no two were processed in the same round of the loop.
C27_FifoOnePerTick ==
    /\ \A k \in 1..Len(app.processed) : app.processed[k].id = k
    /\ \A k, l \in 1..Len(app.processed) :
          k < l => app.processed[k].slot < app.processed[l].slot

\* two transactions waited in the queue together and both have been processed
C27_Witness ==
    /\ app.backlog >= 2
    /\ Len(app.processed) >= 2
    /\ app.processed[1].result = "Ok"

\* C28: whatever the transactions drained so far resulted in, the loop is
\* alive and every finished round has appended exactly one block.
C28_LoopSurvivesFailures ==
    /\ app.pc # "dead"
    /\ Len(app.blocks) = app.slot

----------------------------------------------------------------------------
(* A second execute_operations on the same VM *)

\* the first execution writes slot 0 and ends with a Success
FirstPrograms ==
    {Store(0, value) \o tail : value \in 1..MaxWord, tail \in {<<>>, ReturnStmt}}
    \cup {ReturnStmt}

\* the second execution ends in Revert, after writing slot 0, slot 1 or nothing
SecondPrograms ==
    {Store(0, MaxWord) \o RevertStmt, Store(1, 1) \o RevertStmt, RevertStmt}

\* VM::call_contract, as far as it changes the VM
call_contract_reset(m) == [m EXCEPT !.pc = 0, !.stack = <<>>, !.memory = <<>>]

RerunInit ==
    /\ accounts = EmptyMap
    /\ crashed = FALSE
    /\ last = NoCall
    /\ \E storage \in InitialStorages :
          vm = VMNew(Contract(SampleCode, storage),
                     ExecutionContext("a1", "a2", 1, SampleData, 100000))
    /\ operations = <<>>
    /\ exec = Idle
    /\ SharedAbsent
    /\ NodeAbsent

\* vm.execute_operations(code) on the new VM
ExecuteOperationsFirst ==
    /\ exec = Idle
    /\ \E program \in FirstPrograms :
          /\ operations' = program
          /\ exec' = Running(vm, MaxSteps)
    /\ UNCHANGED <<vm, accounts, crashed, last>>
    /\ UNCHANGED sharedvars
    /\ UNCHANGED nodevars

\* vm.execute_operations(code) once more after a Success, either directly with
\* a longer code (pc is where the first execution left it) or after
\* call_contract has set pc to 0; nothing else of the VM is reset
ExecuteOperationsAgain ==
    /\ exec.state = "returned"
    /\ exec.run = 1
    /\ exec.execution_result.kind = "Success"
    /\ \E program \in SecondPrograms, reset \in BOOLEAN :
          LET m == IF reset THEN call_contract_reset(vm) ELSE vm
          IN /\ vm' = m
             /\ operations' = IF reset THEN program ELSE operations \o program
             /\ exec' = [Running(m, MaxSteps) EXCEPT !.run = 2]
    /\ UNCHANGED <<accounts, crashed, last>>
    /\ UNCHANGED sharedvars
    /\ UNCHANGED nodevars

RerunNext ==
    \/ ExecuteOperationsFirst
    \/ ExecuteOperationsAgain
    \/ LoopIteration
    \/ LoopExit

SpecRerun == RerunInit /\ [][RerunNext]_vars

----------------------------------------------------------------------------
(* Memory expansion *)

\* the charge for the expansion an MStore at offset needs
ExpansionCharge(offset) == calc_memory_expansion_gas(offset + 32)

\* C30: an MStore that has passed the stack and base gas checks and needs the
\* memory to grow fails with OutOfGas exactly when the expansion charge exceeds
\* gas_available, and then leaves the VM as it was before the operation.
C30_ExpansionOutOfGas ==
    (/\ Dispatched
     /\ exec.op.name = "MStore"
     /\ stack_size(exec.before) >= 2
     /\ exec.before.gas_available >= gas_cost_base(exec.op)
     /\ Len(exec.before.memory) < item(exec.before, 1) + 32)
        => LET out_of_gas == exec.state = "failed" /\ exec.error = "OutOfGas"
           IN /\ out_of_gas <=>
                    ExpansionCharge(item(exec.before, 1)) > exec.before.gas_available
              /\ out_of_gas => vm = exec.before

----------------------------------------------------------------------------
(* Single operations on operands pushed just before *)

\* operands: the small values, a word boundary and the largest word
OperandValues == {0, 1, 32, 33, U256Modulus - 1}

Unimplemented == {"Stop", "Mul", "Sub", "Jump", "MLoad", "MStore8", "Swap1"}

OpsOperations ==
    {Op(name) : name \in (Implemented \ PushNames) \ {"Dup"}}
    \cup {Op(name) : name \in Unimplemented}
    \cup {Dup(1), Dup(2)}

\* up to three Push1, then the operation
OpsPrograms ==
    {pushes \o <<op>> :
        pushes \in UNION {[1..n -> {Push1(v) : v \in OperandValues}] : n \in 0..3},
        op \in OpsOperations}

\* calldata shorter and longer than a word
LongData == [i \in 1..33 |-> i]

OpsGas == {12, 100000}

OpsInit ==
    /\ accounts = EmptyMap
    /\ crashed = FALSE
    /\ last = NoCall
    /\ \E data \in {SampleData, LongData}, gas \in OpsGas :
          vm = VMNew(Contract(SampleCode, EmptyMap),
                     ExecutionContext("a1", "a2", 1, data, gas))
    /\ operations = <<>>
    /\ exec = Idle
    /\ SharedAbsent
    /\ NodeAbsent

\* entry of execute_operations with one of the programs above
ExecuteOperationsOne ==
    /\ exec = Idle
    /\ \E program \in OpsPrograms :
          /\ operations' = program
          /\ exec' = Running(vm, MaxSteps)
    /\ UNCHANGED <<vm, accounts, crashed, last>>
    /\ UNCHANGED sharedvars
    /\ UNCHANGED nodevars

OpsNext ==
    \/ ExecuteOperationsOne
    \/ LoopIteration
    \/ LoopExit

SpecOps == OpsInit /\ [][OpsNext]_vars

\* the operation just dispatched is name and it passed the stack and base gas
\* checks of process_operation
Executed(name) ==
    /\ Dispatched
    /\ exec.op.name = name
    /\ stack_size(exec.before) >= min_stack_height(exec.op)
    /\ exec.before.gas_available >= gas_cost_base(exec.op)

OutOfGas == exec.state = "failed" /\ exec.error = "OutOfGas"

\* the amount CodeCopy is to charge
CodeCopyCharge(dest_offset, size) ==
    3 + 3 * ((size + 31) \div 32) + calc_memory_expansion_gas(dest_offset + size)

\* C31: a CodeCopy with its three operands fails with OutOfGas when
\* 3 + 3*ceil(size/32) + memory_expansion_gas(dest_offset + size) exceeds
\* gas_available; otherwise it lowers gas_available by exactly that amount and
\* memory[dest_offset..] holds size bytes of the code, 0 past the end of the code.
C31_CodeCopyCharge ==
    (Executed("CodeCopy") /\ stack_size(exec.before) >= 3)
        => LET dest_offset == item(exec.before, 1)
               offset == item(exec.before, 2)
               size == item(exec.before, 3)
               code == exec.before.contract.code
               amount == CodeCopyCharge(dest_offset, size)
           IN IF amount > exec.before.gas_available THEN OutOfGas
              ELSE /\ LastStepOk
                   /\ vm.gas_available = exec.before.gas_available - amount
                   /\ Len(vm.memory) >= dest_offset + size
                   /\ \A i \in 0..(size - 1) :
                         vm.memory[dest_offset + i + 1] =
                            IF offset + i < Len(code) THEN code[offset + i + 1] ELSE 0


\* C32: the memory length is a multiple of 32 in every state of an execution,
\* and no operation leaves the memory shorter than it found it.
C32_MemoryWholeWords ==
    /\ Len(vm.memory) % 32 = 0
    /\ Dispatched => Len(vm.memory) >= Len(exec.before.memory)

\* the 32 bytes of data from index i, zeros past the end
PaddedWord(data, i) ==
    [k \in 1..32 |-> IF i + k <= Len(data) THEN data[i + k] ELSE 0]

\* C33: a CallDataLoad with its operand i continues the execution with the
\* big-endian word of data[i..i+32], zero-padded past the end of the calldata, in
\* place of i on the stack.
C33_CallDataLoadPads ==
    Executed("CallDataLoad")
        => /\ LastStepOk
           /\ vm.stack = [exec.before.stack EXCEPT ![Len(exec.before.stack)] =
                  from_be_slice(PaddedWord(exec.before.context.data,
                                           item(exec.before, 1)))]


\* C34: a JumpI with its two operands continues the execution at instruction
\* index dest when cond is not 0, dest = 0 included, and at the following
\* instruction when cond is 0; the stack is two items shorter.
C34_JumpITarget ==
    (Executed("JumpI") /\ stack_size(exec.before) >= 2)
        => /\ LastStepOk
           /\ vm.pc = IF item(exec.before, 2) # 0 THEN item(exec.before, 1)
                      ELSE exec.before.pc + 1
           /\ stack_size(vm) = stack_size(exec.before) - 2

\* C35: an operation the VM does not implement, once past the stack and gas
\* checks, ends the execution with the error NotImplemented, and no operation
\* makes the VM panic.
C35_NotImplementedIsAnError ==
    /\ \A name \in Unimplemented :
          Executed(name) => (exec.state = "failed" /\ exec.error = "NotImplemented")
    /\ exec.state # "panicked"

\* C36: the minimum stack height of an implemented operation is the number of
\* items it takes from the stack, so NoItemsOnStack is never the error of an
\* execution.
C36_MinHeightIsConsumed ==
    /\ (Dispatched /\ exec.op.name \in Implemented)
          => min_stack_height(exec.op) = pops(exec.op)
    /\ exec.state = "failed" => exec.error # "NoItemsOnStack"

\* C39: an Add with its two operands a, b continues the execution with
\* (a + b) mod 2^256 in their place on the stack, and with memory, storage and
\* the storage journal as they were.
C39_AddWraps ==
    Executed("Add")
        => LET a == item(exec.before, 1)
               b == item(exec.before, 2)
               height == stack_size(exec.before)
           IN /\ LastStepOk
              /\ vm.stack = Append(SubSeq(exec.before.stack, 1, height - 2),
                                   (a + b) % U256Modulus)
              /\ vm.memory = exec.before.memory
              /\ vm.contract.storage = exec.before.contract.storage
              /\ vm.storage_revert = exec.before.storage_revert

\* an Add whose operands sum to more than a word holds has been executed
C39_Witness ==
    /\ Executed("Add")
    /\ item(exec.before, 1) + item(exec.before, 2) >= U256Modulus
    /\ item(exec.before, 1) # item(exec.before, 2)
    /\ stack_size(exec.before) = 3

----------------------------------------------------------------------------
(* The decoding of a push *)

\* the last call of next_operation of instance i started at a push opcode of
\* width n with at least n bytes after it
AtCompletePush(i, n) ==
    /\ parsers[i] # Unborn
    /\ parsers[i].kind # "New"
    /\ parsers[i].at < Len(parsers[i].bytecode)
    /\ parsers[i].bytecode[parsers[i].at + 1] = 95 + n
    /\ parsers[i].at + n < Len(parsers[i].bytecode)

----------------------------------------------------------------------------
(* Accounts over transfers and creations *)

\* C38: over any call, every account that was in the map is still there and
\* is the same account: a creation leaves it as it was, and its nonce changes
\* only by +1, when it is the sender of a transfer that succeeded.
C38_AccountsPersist ==
    last # NoCall =>
        \A a \in DOMAIN last.pre :
            /\ a \in DOMAIN accounts
            /\ accounts[a].code_hash = last.pre[a].code_hash
            /\ accounts[a].nonce >= last.pre[a].nonce
            /\ IF last.op = "Executor::process_transaction"
               THEN accounts[a].nonce # last.pre[a].nonce =>
                       /\ accounts[a].nonce = last.pre[a].nonce + 1
                       /\ last.result = "Ok"
                       /\ a = last.sender
               ELSE accounts[a] = last.pre[a]

----------------------------------------------------------------------------
(* process_transaction near the top of the u64 range *)

\* the largest u64
U64Max == U64Modulus - 1

\* the least fee per gas whose product with TRANSACTION_GAS_COST passes U64Max
WrappingFee == U64Modulus \div TRANSACTION_GAS_COST + 1

\* [tx, base_fee]: an ordinary transfer; a fee whose product with 21000 wraps;
\* base_fee + priority fee wrapping to 0; value + total_fee wrapping; a value
\* of 1 for a recipient that may hold U64Max
WideCalls ==
    { [tx |-> NewTransaction(to, 1, TRANSACTION_GAS_COST, 0, 1, <<>>, "k1"),
       base_fee |-> 1] : to \in {"a2", "a3"} }
    \cup
    { [tx |-> NewTransaction("a3", 0, TRANSACTION_GAS_COST, WrappingFee,
                             WrappingFee, <<>>, "k1"),
       base_fee |-> 1],
      [tx |-> NewTransaction("a3", 0, TRANSACTION_GAS_COST, 1, U64Max, <<>>, "k1"),
       base_fee |-> U64Max],
      [tx |-> NewTransaction("a3", U64Max, TRANSACTION_GAS_COST, 0, 1, <<>>, "k1"),
       base_fee |-> 1] }

\* the sender holds less than one transfer costs, a little more, or U64Max;
\* the recipient a2 holds nothing or U64Max
WideGenesis ==
    { [a \in {"a1", "a2"} |->
          NewAccount(IF a = "a1" THEN sender ELSE recipient, ZERO, ZERO)] :
        sender \in {TRANSACTION_GAS_COST - 1, TRANSACTION_GAS_COST + 1, U64Max},
        recipient \in {0, U64Max} }

MaxTransfers == 3

WideInit ==
    /\ accounts \in WideGenesis
    /\ crashed = FALSE
    /\ last = NoCall
    /\ VMAbsent
    /\ SharedAbsent
    /\ NodeAbsent

\* A caller hands one of the transactions above to Executor::process_transaction.
ExecutorProcessWide ==
    /\ ~crashed
    /\ last = NoCall
    /\ accounts["a1"].nonce < MaxTransfers
    /\ \E call \in WideCalls, build \in Builds :
         LET out == process_transaction(accounts, call.tx, call.base_fee, build)
         IN /\ accounts' = out.accounts
            /\ crashed' = (out.result = "panic")
            /\ last' = Call("Executor::process_transaction", call.tx, call.base_fee,
                            get_sender_address(call.tx), accounts, out.result)
    /\ UNCHANGED vmvars
    /\ UNCHANGED sharedvars
    /\ UNCHANGED nodevars

WideNext ==
    \/ ExecutorProcessWide
    \/ CallReturns

SpecWide == WideInit /\ [][WideNext]_vars

\* balance covers value + 21000 * fee, as numbers
Covers(balance, value, fee) ==
    /\ balance >= value
    /\ fee <= (balance - value) \div TRANSACTION_GAS_COST

\* C40: a call of process_transaction returns an error or Ok, and when it
\* returns Ok the sender's balance covered value + 21000 * min(max fee, base
\* fee + priority fee) as numbers, the sender's balance has not risen and the
\* recipient's balance has not fallen.
C40_NoWrongDecision ==
    Called =>
        /\ last.result # "panic"
        /\ last.result = "Ok" =>
              /\ Covers(last.pre[last.sender].balance, last.tx.value,
                        Min(last.tx.max_fee_per_gas,
                            last.base_fee + last.tx.max_priority_fee_per_gas))
              /\ accounts[last.sender].balance <= last.pre[last.sender].balance
              /\ accounts[last.tx.to].balance >= BalanceOf(last.pre, last.tx.to)

====
